---- MODULE Spec2Model ----
(***************************************************************************)
(* Task lifecycle, scheduler and process tree of the rCore kernel.         *)
(*                                                                         *)
(* Spec      the TaskManager of os/src/task/mod.rs: a fixed task array,    *)
(*           current_task, and the suspend / exit / run_next_task steps.   *)
(* SpecProc  the process syscalls of os/src/syscall/process.rs (fork,      *)
(*           spawn, exit, yield, waitpid) over reference-counted task      *)
(*           control blocks, a ready queue and the processor's current     *)
(*           task.                                                         *)
(***************************************************************************)
EXTENDS Integers, Sequences, FiniteSets, TLC

\* ------------------------------------------------------------------ bounds
\* number of applications the loader reports (get_num_app)
NumApp == 3
\* largest value get_time_ms returns in the model
MaxTime == 2
\* number of pids the pid allocator can hand out (pids 0 .. MaxTasks-1)
MaxTasks == 3
\* number of tasks alive at once in the fork / exec / exit / waitpid scenario
MaxLive == 2

VARIABLES
    task_status,    \* TaskManagerInner.tasks[i].task_status
    start_time,     \* TaskManagerInner.tasks[i].start_time
    current_task,   \* TaskManagerInner.current_task
    pc,             \* where the kernel is: boot, user, suspended, exited, panicked
    switched,       \* the last __switch: [from, to, was], was = status of `to` when chosen
    now,            \* the timer (get_time_ms)
    fifo,           \* reference run queue of spec 4.4 (enqueue back, dequeue front)
    fifo_out,       \* what the reference queue returned at the last schedule
    resumed,        \* the first NumApp tasks run_next_task switched to, in order
    yields_only,    \* no task has exited so far
    waited,         \* history (SpecFair): the suspends and exits of running tasks
                    \* each task has been Ready through
    \* ---- the TaskManager's inner cell (SpecCell)
    borrowed,       \* UPSafeCell<TaskManagerInner>: an exclusive borrow is out
    borrow_fault,   \* "none", "already borrowed" (exclusive_access panics) or
                    \* "held across switch"
    last_call,      \* the TaskManager function called last
    \* ---- process syscalls (SpecProc)
    proc_status,    \* TaskControlBlockInner.task_status of the task holding each pid
    children,       \* TaskControlBlockInner.children: owning references, in order
    exit_code,      \* TaskControlBlockInner.exit_code
    strong_count,   \* Arc::strong_count of each task control block
    ready_queue,    \* the scheduler's queue of Ready tasks
    processor_current, \* the task the processor runs (current_task())
    kernel_panic,   \* the assert_eq! of sys_waitpid has failed
    ret,            \* the last kernel step: [op, arg, val, written]: val = its result,
                    \* written = what it stored through exit_code_ptr (Uninit = nothing)
    reaped_gone,    \* history, per parent: pids it reaped that no task has been given since
    recycled,       \* history: [parent, pid] when the task created last was given a
                    \* pid that its parent had reaped before
    trap_x10,       \* x[10] of each task's trap context as the process syscalls
                    \* leave it (NoReg = no such task)
    \* ---- fork / exec / exit / waitpid scenario (SpecExec)
    execed,         \* history: the tasks that have called sys_exec with success
    exited,         \* history: the code each task passed to sys_exit (NotExited = none)
    reaped_execed,  \* history: the last step was a sys_waitpid that reaped a task
                    \* which had called sys_exec
    \* ---- address spaces and frames (SpecMem, SpecFork, SpecPt)
    root_ppn,       \* PageTable.root_ppn of each address space (NoFrame = no such space)
    table_frames,   \* PageTable.frames: the interior frame of each group of pages
    leaf,           \* the valid leaf entries: virtual page -> frame (NoFrame = invalid)
    data_frames,    \* the frames the mapped regions own: virtual page -> frame
    areas,          \* MemorySet.areas: the regions [lo, hi, perm] besides the heap
    program_brk,    \* TaskControlBlockInner.program_brk
    frame_pool,     \* the frame allocator's free pool
    contents,       \* what each frame holds
    mem_current,    \* the address space of the current task
    mem_panic,      \* the kernel has aborted in a memory operation
    mem_ret,        \* the last memory step: [op, start, len, port, val]
    mem_prev,       \* history: the address space before the last step, if that
                    \* step was a sys_mmap that returned 0 or a heap growth
    \* ---- the descriptor tables of the current task (SpecFs)
    fd_table,       \* TaskControlBlockInner.fd_table: descriptor fd is entry fd + 1
    st_table,       \* TaskControlBlockInner.st_table: descriptor -> Stat
    fs_ret          \* the last file syscall: [op, path, fd, val]

sched_vars == <<task_status, start_time, current_task, pc, switched, now,
                fifo, fifo_out, resumed, yields_only>>

proc_vars == <<proc_status, children, exit_code, strong_count,
               ready_queue, processor_current, kernel_panic, ret, reaped_gone,
               recycled, trap_x10>>

exec_vars == <<execed, exited, reaped_execed>>

fair_vars == <<waited>>

cell_vars == <<borrowed, borrow_fault, last_call>>

mem_vars == <<root_ppn, table_frames, leaf, data_frames, areas, program_brk,
              frame_pool, contents, mem_current, mem_panic, mem_ret,
              mem_prev>>

fs_vars == <<fd_table, st_table, fs_ret>>

vars == <<sched_vars, fair_vars, cell_vars, proc_vars, exec_vars, mem_vars, fs_vars>>

TaskIds == 0 .. (NumApp - 1)
NoTask == -1

\* TaskControlBlock::new gives every loaded task the status Ready
TaskControlBlock_new(i) == "Ready"

\* get_time_ms: the timer never runs backwards
get_time_ms == { t \in 0 .. MaxTime : t >= now }

Running == { i \in TaskIds : task_status[i] = "Running" }
ReadySet == { i \in TaskIds : task_status[i] = "Ready" }

\* ------------------------------------------------------------------ helpers
\* the first (at most) n elements of s
FirstN(s, n) == IF Len(s) <= n THEN s ELSE SubSeq(s, 1, n)

\* the set of elements of s
Range(s) == { s[k] : k \in 1 .. Len(s) }

\* ------------------------------------------------------------------ TaskManager
\* a find_next_task that scans the task list from index 0 ("the first Ready task
\* in task list") instead of from current_task + 1
find_next_task_from_zero ==
    IF ReadySet = {} THEN NoTask
    ELSE CHOOSE i \in ReadySet : \A j \in ReadySet : i <= j

\* a find_next_task that takes the next task in the array whatever its status
find_next_task_any_status == (current_task + 1) % NumApp

\* a find_next_task whose range ends before the current task:
\* current+1 .. current+num_app-1
find_next_task_skips_current ==
    LET ids == [k \in 1 .. (NumApp - 1) |-> (current_task + k) % NumApp]
        hits == { k \in 1 .. (NumApp - 1) : task_status[ids[k]] = "Ready" }
    IN  IF hits = {} THEN NoTask
        ELSE ids[CHOOSE k \in hits : \A j \in hits : k <= j]

\* find_next_task: the first Ready task in current+1 .. current+num_app (mod num_app)
find_next_task ==
    LET ids == [k \in 1 .. NumApp |-> (current_task + k) % NumApp]
        hits == { k \in 1 .. NumApp : task_status[ids[k]] = "Ready" }
    IN  IF hits = {} THEN NoTask
        ELSE ids[CHOOSE k \in hits : \A j \in hits : k <= j]

SchedInit ==
    /\ task_status = [i \in TaskIds |-> TaskControlBlock_new(i)]
    /\ start_time = [i \in TaskIds |-> 0]
    /\ current_task = 0
    /\ pc = "boot"
    /\ switched = [from |-> NoTask, to |-> NoTask, was |-> "Ready"]
    /\ now = 0
    /\ fifo = [k \in 1 .. NumApp |-> k - 1]
    /\ fifo_out = NoTask
    /\ resumed = << >>
    /\ yields_only = TRUE

\* run_first_task: tasks[0] becomes Running and is switched to
run_first_task ==
    /\ pc = "boot"
    /\ \E t \in get_time_ms :
        /\ now' = t
        /\ start_time' = [start_time EXCEPT ![0] = t]
    /\ task_status' = [task_status EXCEPT ![0] = "Running"]
    /\ switched' = [from |-> NoTask, to |-> 0, was |-> task_status[0]]
    /\ pc' = "user"
    /\ fifo' = Tail(fifo)
    /\ fifo_out' = Head(fifo)
    /\ UNCHANGED <<current_task, resumed, yields_only>>

\* a mark_current_suspended that leaves the status of the current task alone
mark_current_suspended_keeps_running ==
    /\ pc = "user"
    /\ pc' = "suspended"
    /\ fifo' = Append(fifo, current_task)
    /\ UNCHANGED <<task_status, start_time, current_task, switched, now, fifo_out,
                   resumed, yields_only>>

\* mark_current_suspended: first half of suspend_current_and_run_next
mark_current_suspended ==
    /\ pc = "user"
    /\ task_status' = [task_status EXCEPT ![current_task] = "Ready"]
    /\ pc' = "suspended"
    /\ fifo' = Append(fifo, current_task)
    /\ UNCHANGED <<start_time, current_task, switched, now, fifo_out,
                   resumed, yields_only>>

\* a mark_current_exited that marks the task after the current one
mark_current_exited_off_by_one ==
    /\ pc = "user"
    /\ task_status' = [task_status EXCEPT ![(current_task + 1) % NumApp] = "Exited"]
    /\ pc' = "exited"
    /\ yields_only' = FALSE
    /\ UNCHANGED <<start_time, current_task, switched, now, fifo,
                   fifo_out, resumed>>

\* mark_current_exited: first half of exit_current_and_run_next
mark_current_exited ==
    /\ pc = "user"
    /\ task_status' = [task_status EXCEPT ![current_task] = "Exited"]
    /\ pc' = "exited"
    /\ yields_only' = FALSE
    /\ UNCHANGED <<start_time, current_task, switched, now, fifo,
                   fifo_out, resumed>>

\* run_next_task, Some(next): next becomes Running and current, then __switch
run_next_task_switch ==
    /\ pc \in {"suspended", "exited"}
    /\ find_next_task # NoTask
    /\ LET next == find_next_task IN
        /\ \E t \in get_time_ms :
            /\ now' = t
            /\ start_time' = [start_time EXCEPT ![next] = t]
        /\ task_status' = [task_status EXCEPT ![next] = "Running"]
        /\ switched' = [from |-> current_task, to |-> next, was |-> task_status[next]]
        /\ current_task' = next
        /\ resumed' = FirstN(Append(resumed, next), NumApp)
    /\ pc' = "user"
    /\ fifo' = IF fifo = << >> THEN fifo ELSE Tail(fifo)
    /\ fifo_out' = IF fifo = << >> THEN NoTask ELSE Head(fifo)
    /\ UNCHANGED yields_only

\* a run_next_task whose None branch idles instead of panicking
run_next_task_idle ==
    /\ pc \in {"suspended", "exited"}
    /\ find_next_task = NoTask
    /\ pc' = "idle"
    /\ UNCHANGED <<task_status, start_time, current_task, switched, now,
                   fifo, fifo_out, resumed, yields_only>>

\* run_next_task, None: panic!("All applications completed!")
run_next_task_panic ==
    /\ pc \in {"suspended", "exited"}
    /\ find_next_task = NoTask
    /\ pc' = "panicked"
    /\ UNCHANGED <<task_status, start_time, current_task, switched, now,
                   fifo, fifo_out, resumed, yields_only>>

\* the timer advances while a task runs in user mode
Tick ==
    /\ pc = "user"
    /\ now < MaxTime
    /\ now' = now + 1
    /\ UNCHANGED <<task_status, start_time, current_task, pc, switched,
                   fifo, fifo_out, resumed, yields_only>>

\* ------------------------------------------------------------------ processes
Pids == 0 .. (MaxTasks - 1)
\* the exit codes user code passes to sys_exit
ExitCodes == {0, 7}
\* no store through exit_code_ptr
Uninit == "uninit"
\* the machine word of the model: isize -> usize conversions wrap modulo 2^16
UsizeModulus == 2 ^ 16
\* `pid as usize`
as_usize(x) == IF x < 0 THEN x + UsizeModulus ELSE x
\* the pid arguments user code passes to sys_waitpid
WaitArgs == (-2) .. (MaxTasks - 1)
\* program names user code passes to sys_spawn
Paths == {"known", "unknown"}
\* get_app_data_by_name: Some for a program the loader knows
get_app_data_by_name(path) == path = "known"

NoRecycled == [parent |-> NoTask, pid |-> NoTask]
\* no trap context
NoReg == -1
\* what user code can leave in a0 before a system call without arguments
Regs == {0, 5}

\* the record of a kernel step
Ret(op, arg, val, written) == [op |-> op, arg |-> arg, val |-> val, written |-> written]

\* the task control blocks as one value
Tcbs == [status |-> proc_status, children |-> children, exit_code |-> exit_code,
         strong_count |-> strong_count,
         reaped_gone |-> reaped_gone, recycled |-> recycled, x10 |-> trap_x10]

SetTcbs(S) ==
    /\ proc_status' = S.status
    /\ children' = S.children
    /\ exit_code' = S.exit_code
    /\ strong_count' = S.strong_count
    /\ reaped_gone' = S.reaped_gone
    /\ recycled' = S.recycled
    /\ trap_x10' = S.x10

\* the first of the indices `hits`, 0 if there is none (iter().find)
FirstIndex(hits) ==
    IF hits = {} THEN 0 ELSE CHOOSE k \in hits : \A j \in hits : k <= j

\* s without its element at index k (Vec::remove)
RemoveAt(s, k) == [j \in 1 .. (Len(s) - 1) |-> IF j < k THEN s[j] ELSE s[j + 1]]

\* dropping one Arc<TaskControlBlock>: the count goes down by one; at zero the
\* task control block is deallocated, its pid returns to the allocator and its
\* children vector drops one reference to every child
RECURSIVE ArcDropAll(_, _)
ArcDrop(S, p) ==
    IF S.strong_count[p] > 1
    THEN [S EXCEPT !.strong_count[p] = @ - 1]
    ELSE ArcDropAll([S EXCEPT !.strong_count[p] = 0,
                              !.status[p] = "None",
                              !.children[p] = << >>,
                              !.exit_code[p] = 0,
                              !.x10[p] = NoReg,
                              !.reaped_gone[p] = {},
                              !.recycled = IF p \in {@.parent, @.pid}
                                           THEN NoRecycled ELSE @],
                    S.children[p])
ArcDropAll(S, cs) ==
    IF cs = << >> THEN S ELSE ArcDropAll(ArcDrop(S, Head(cs)), Tail(cs))

\* PidAllocator::alloc: a pid no surviving task control block holds
pid_alloc == { q \in Pids : proc_status[q] = "None" }

\* TaskControlBlock::fork / fork_without_copy: a new Ready task with pid q,
\* pushed to the parent's children; one reference in children, one returned
new_child(S, parent, q) ==
    [S EXCEPT !.status[q] = "Ready",
              !.children[q] = << >>,
              !.exit_code[q] = 0,
              !.x10[q] = 0,
              !.strong_count[q] = 2,
              !.children[parent] = Append(@, q),
              !.recycled = IF q \in S.reaped_gone[parent]
                           THEN [parent |-> parent, pid |-> q] ELSE NoRecycled,
              !.reaped_gone = [r \in Pids |-> S.reaped_gone[r] \ {q}]]

\* add_task: enqueue at the back of the ready queue
add_task(q, task) == Append(q, task)

ProcInit ==
    /\ proc_status = [p \in Pids |-> IF p = 0 THEN "Ready" ELSE "None"]
    /\ children = [p \in Pids |-> << >>]
    /\ exit_code = [p \in Pids |-> 0]
    /\ strong_count = [p \in Pids |-> IF p = 0 THEN 1 ELSE 0]
    /\ ready_queue = <<0>>
    /\ processor_current = NoTask
    /\ kernel_panic = FALSE
    /\ ret = Ret("boot", 0, 0, Uninit)
    /\ reaped_gone = [p \in Pids |-> {}]
    /\ recycled = NoRecycled
    /\ trap_x10 = [p \in Pids |-> IF p = 0 THEN 0 ELSE NoReg]

\* a syscall is entered by the running task of a kernel that has not panicked
InSyscall == processor_current # NoTask /\ ~kernel_panic

\* run_tasks: the idle loop fetches the front of the ready queue and runs it
run_tasks ==
    /\ processor_current = NoTask
    /\ ~kernel_panic
    /\ ready_queue # << >>
    /\ processor_current' = Head(ready_queue)
    /\ ready_queue' = Tail(ready_queue)
    /\ proc_status' = [proc_status EXCEPT ![Head(ready_queue)] = "Running"]
    /\ ret' = Ret("run_tasks", 0, Head(ready_queue), Uninit)
    /\ UNCHANGED <<children, exit_code, strong_count, kernel_panic,
                   reaped_gone, recycled, trap_x10>>

\* suspend_current_and_run_next: the current task becomes Ready and goes to
\* the back of the ready queue; the processor is given up
suspend_current_and_run_next ==
    /\ proc_status' = [proc_status EXCEPT ![processor_current] = "Ready"]
    /\ ready_queue' = add_task(ready_queue, processor_current)
    /\ processor_current' = NoTask
    /\ UNCHANGED <<children, exit_code, strong_count, kernel_panic,
                   reaped_gone, recycled, trap_x10>>

\* sys_yield
sys_yield ==
    /\ InSyscall
    /\ suspend_current_and_run_next
    /\ ret' = Ret("yield", 0, 0, Uninit)

\* exit_current_and_run_next(exit_code): the current task becomes a Zombie
\* holding exit_code; the processor drops its reference to it
exit_current_and_run_next(code) ==
    /\ LET me == processor_current
           S1 == [Tcbs EXCEPT !.status[me] = "Zombie", !.exit_code[me] = code]
       IN  SetTcbs(ArcDrop(S1, me))
    /\ processor_current' = NoTask
    /\ UNCHANGED <<ready_queue, kernel_panic>>

\* sys_exit(exit_code)
sys_exit(code) ==
    /\ InSyscall
    /\ exit_current_and_run_next(code)
    /\ ret' = Ret("exit", code, 0, Uninit)

\* a sys_fork that leaves x[10] of the child's trap context as it was copied
\* from the parent's
sys_fork_keeps_x10 ==
    /\ InSyscall
    /\ \E new_pid \in pid_alloc, a0 \in Regs :
        LET S1 == new_child(Tcbs, processor_current, new_pid)
            S2 == [S1 EXCEPT !.x10[new_pid] = a0]
        IN  /\ SetTcbs(S2)
            /\ ready_queue' = add_task(ready_queue, new_pid)
            /\ ret' = Ret("fork", 0, new_pid, Uninit)
    /\ UNCHANGED <<processor_current, kernel_panic>>

\* sys_fork: the child copies the parent's memory and trap context (whose
\* x[10] holds what the caller had in a0), is linked as its child and moved
\* into the ready queue; x[10] of the child's trap context is set to 0 and the
\* parent gets the child's pid
sys_fork ==
    /\ InSyscall
    /\ \E new_pid \in pid_alloc, a0 \in Regs :
        LET S1 == new_child(Tcbs, processor_current, new_pid)
            S2 == [S1 EXCEPT !.x10[new_pid] = a0]
            S3 == [S2 EXCEPT !.x10[new_pid] = 0]
        IN  /\ SetTcbs(S3)
            /\ ready_queue' = add_task(ready_queue, new_pid)
            /\ ret' = Ret("fork", 0, new_pid, Uninit)
    /\ UNCHANGED <<processor_current, kernel_panic>>

\* a sys_spawn whose local handle tcb_child is never dropped
sys_spawn_leaks_handle(path) ==
    /\ InSyscall
    /\ IF get_app_data_by_name(path)
       THEN \E new_pid \in pid_alloc :
            LET S1 == new_child(Tcbs, processor_current, new_pid)
                S2 == [S1 EXCEPT !.strong_count[new_pid] = @ + 1]
            IN  /\ SetTcbs(S2)
                /\ ready_queue' = add_task(ready_queue, new_pid)
                /\ ret' = Ret("spawn", 1, new_pid, Uninit)
       ELSE /\ ret' = Ret("spawn", 0, -1, Uninit)
            /\ UNCHANGED <<proc_status, children, exit_code, strong_count,
                           ready_queue, reaped_gone, recycled, trap_x10>>
    /\ UNCHANGED <<processor_current, kernel_panic>>

\* a sys_spawn that never passes the child to add_task
sys_spawn_not_enqueued(path) ==
    /\ InSyscall
    /\ IF get_app_data_by_name(path)
       THEN \E new_pid \in pid_alloc :
            /\ SetTcbs(ArcDrop(new_child(Tcbs, processor_current, new_pid), new_pid))
            /\ ret' = Ret("spawn", 1, new_pid, Uninit)
       ELSE /\ ret' = Ret("spawn", 0, -1, Uninit)
            /\ UNCHANGED <<proc_status, children, exit_code, strong_count,
                           reaped_gone, recycled, trap_x10>>
    /\ UNCHANGED <<ready_queue, processor_current, kernel_panic>>

\* sys_spawn: for a known program fork_without_copy makes the child, a clone of
\* the handle goes to the ready queue and the local handle is dropped at the end
\* of the block; for an unknown program -1
sys_spawn(path) ==
    /\ InSyscall
    /\ IF get_app_data_by_name(path)
       THEN \E new_pid \in pid_alloc :
            LET S1 == new_child(Tcbs, processor_current, new_pid)
                S2 == [S1 EXCEPT !.strong_count[new_pid] = @ + 1]
                S3 == ArcDrop(S2, new_pid)
            IN  /\ SetTcbs(S3)
                /\ ready_queue' = add_task(ready_queue, new_pid)
                /\ ret' = Ret("spawn", 1, new_pid, Uninit)
       ELSE /\ ret' = Ret("spawn", 0, -1, Uninit)
            /\ UNCHANGED <<proc_status, children, exit_code, strong_count,
                           ready_queue, reaped_gone, recycled, trap_x10>>
    /\ UNCHANGED <<processor_current, kernel_panic>>

\* no call of sys_exit so far
NotExited == -1

ExecInit ==
    /\ execed = {}
    /\ exited = [p \in Pids |-> NotExited]
    /\ reaped_execed = FALSE

\* a sys_exec that ends the caller as sys_exit(0) does once the program is loaded
sys_exec_exits(path) ==
    /\ InSyscall
    /\ IF get_app_data_by_name(path)
       THEN /\ exit_current_and_run_next(0)
            /\ ret' = Ret("exec", 1, 0, Uninit)
            /\ execed' = execed \cup {processor_current}
       ELSE /\ ret' = Ret("exec", 0, -1, Uninit)
            /\ UNCHANGED <<proc_status, children, exit_code, strong_count,
                           ready_queue, processor_current, kernel_panic,
                           reaped_gone, recycled, trap_x10, execed>>

\* sys_exec(path): for a program the loader knows, task.exec(data) replaces the
\* caller's address space and trap context and keeps its pid, its status and
\* its parent / children links, and 0 is returned; for an unknown program -1
sys_exec(path) ==
    /\ InSyscall
    /\ IF get_app_data_by_name(path)
       THEN /\ ret' = Ret("exec", 1, 0, Uninit)
            /\ execed' = execed \cup {processor_current}
            /\ trap_x10' = [trap_x10 EXCEPT ![processor_current] = 0]
       ELSE /\ ret' = Ret("exec", 0, -1, Uninit)
            /\ UNCHANGED <<execed, trap_x10>>
    /\ UNCHANGED <<proc_status, children, exit_code, strong_count,
                   ready_queue, processor_current, kernel_panic,
                   reaped_gone, recycled>>

\* the closure of both searches: pid == -1 || pid as usize == p.getpid()
pid_matches(pid, p) == pid = -1 \/ as_usize(pid) = p

\* a first search that only asks whether there is any child: any(|_| true)
has_matching_child_any(kids, pid) == kids # << >>

\* children.iter().any(|p| pid == -1 || pid as usize == p.getpid())
has_matching_child(kids, pid) ==
    \E k \in 1 .. Len(kids) : pid_matches(pid, kids[k])

\* a second search that does not ask is_zombie()
find_zombie_child_any_status(kids, pid) ==
    FirstIndex({ k \in 1 .. Len(kids) : pid_matches(pid, kids[k]) })

\* a second search that takes the last matching zombie (rev().find)
find_zombie_child_last(kids, pid) ==
    LET hits == { k \in 1 .. Len(kids) :
                    proc_status[kids[k]] = "Zombie" /\ pid_matches(pid, kids[k]) }
    IN  IF hits = {} THEN 0 ELSE CHOOSE k \in hits : \A j \in hits : j <= k

\* children.iter().enumerate().find(|(_, p)| p.is_zombie() && (pid == -1 || ..)):
\* the index (from 1) of the first matching zombie, 0 for None
find_zombie_child(kids, pid) ==
    FirstIndex({ k \in 1 .. Len(kids) :
                    proc_status[kids[k]] = "Zombie" /\ pid_matches(pid, kids[k]) })

\* a read of the caller's own exit_code instead of the child's
child_exit_code_of_caller(child) == exit_code[processor_current]

\* child.inner_exclusive_access().exit_code
child_exit_code(child) == exit_code[child]

\* inner.children.remove(idx): the reference moves from the list to `child`
remove_child(S, me, idx) ==
    [S EXCEPT !.children[me] = RemoveAt(S.children[me], idx)]

\* a sys_waitpid that reads the zombie through a clone of its list entry
\* (children[idx].clone()) and never removes it, with no assertion
sys_waitpid_no_remove(pid) ==
    /\ InSyscall
    /\ LET me == processor_current
           kids == children[me]
           idx == find_zombie_child(kids, pid)
       IN  IF ~has_matching_child(kids, pid)
           THEN /\ ret' = Ret("waitpid", pid, -1, Uninit)
                /\ UNCHANGED <<reaped_gone, recycled>>
           ELSE IF idx = 0
           THEN /\ ret' = Ret("waitpid", pid, -2, Uninit)
                /\ UNCHANGED <<reaped_gone, recycled>>
           ELSE /\ ret' = Ret("waitpid", pid, kids[idx], child_exit_code(kids[idx]))
                /\ reaped_gone' = [reaped_gone EXCEPT ![me] = @ \cup {kids[idx]}]
                /\ UNCHANGED recycled
    /\ UNCHANGED <<proc_status, children, exit_code, strong_count, kernel_panic,
                   ready_queue, processor_current, trap_x10>>

\* sys_waitpid(pid, exit_code_ptr): -1 without a matching child, -2 without a
\* matching zombie; else the zombie leaves the children list, the assertion on
\* its reference count is made, its exit code is stored through exit_code_ptr,
\* its pid is returned and the last reference is dropped
sys_waitpid(pid) ==
    /\ InSyscall
    /\ LET me == processor_current
           kids == children[me]
           idx == find_zombie_child(kids, pid)
       IN  IF ~has_matching_child(kids, pid)
           THEN /\ ret' = Ret("waitpid", pid, -1, Uninit)
                /\ UNCHANGED <<proc_status, children, exit_code, strong_count,
                               kernel_panic, reaped_gone, recycled, trap_x10>>
           ELSE IF idx = 0
           THEN /\ ret' = Ret("waitpid", pid, -2, Uninit)
                /\ UNCHANGED <<proc_status, children, exit_code, strong_count,
                               kernel_panic, reaped_gone, recycled, trap_x10>>
           ELSE LET child == kids[idx]
                    S1 == remove_child(Tcbs, me, idx)
                IN  IF S1.strong_count[child] # 1
                    THEN \* assert_eq!(Arc::strong_count(&child), 1) fails
                         /\ kernel_panic' = TRUE
                         /\ SetTcbs(S1)
                         /\ ret' = Ret("waitpid_panic", pid, 0, Uninit)
                    ELSE LET S2 == [S1 EXCEPT !.reaped_gone[me] = @ \cup {child}]
                         IN  /\ ret' = Ret("waitpid", pid, child, child_exit_code(child))
                             /\ SetTcbs(ArcDrop(S2, child))
                             /\ UNCHANGED kernel_panic
    /\ UNCHANGED <<ready_queue, processor_current>>

\* ------------------------------------------------------------------ address spaces
\* config::PAGE_SIZE
PAGE_SIZE == 4096
\* number of virtual pages of an address space (pages 0 .. MaxVpn-1)
MaxVpn == 3
Vpns == 0 .. (MaxVpn - 1)
\* number of leaf entries one interior frame of the page table holds
TableSpan == 2
Group(vpn) == vpn \div TableSpan
Groups == { Group(v) : v \in Vpns }
\* the frames one address space can hold: its root, one interior frame per
\* group of pages and one frame per page
SpaceFrames == 1 + Cardinality(Groups) + MaxVpn
\* number of physical frames: enough for every address space
NumFrames == 2 * SpaceFrames
Frames == 0 .. (NumFrames - 1)
NoFrame == -1
\* the address spaces: the one of the initial task and the one sys_fork makes
Spaces == {0, 1}
NoArea == { }

\* VirtAddr::aligned, VirtAddr::floor, VirtAddr::ceil
aligned(va) == va % PAGE_SIZE = 0
floor(va) == va \div PAGE_SIZE
ceil(va) == (va + PAGE_SIZE - 1) \div PAGE_SIZE

\* the virtual pages of [start_va, end_va): floor(start_va) .. ceil(end_va) - 1
PageRange(start_va, end_va) == floor(start_va) .. (ceil(end_va) - 1)

\* the pages of a region
AreaPages(r) == r.lo .. (r.hi - 1)

\* the heap starts right above the program image
heap_bottom == PAGE_SIZE
\* MapPermission of the heap
HeapPerm == {"R", "W", "U"}

\* the record of a memory step
MemRet(op, start, len, port, val) ==
    [op |-> op, start |-> start, len |-> len, port |-> port, val |-> val]

\* the memory state as one value
Mem == [root |-> root_ppn, tables |-> table_frames, leaf |-> leaf,
        data |-> data_frames, areas |-> areas, brk |-> program_brk,
        pool |-> frame_pool, contents |-> contents, panic |-> mem_panic]

SetMem(M) ==
    /\ root_ppn' = M.root
    /\ table_frames' = M.tables
    /\ leaf' = M.leaf
    /\ data_frames' = M.data
    /\ areas' = M.areas
    /\ program_brk' = M.brk
    /\ frame_pool' = M.pool
    /\ contents' = M.contents
    /\ mem_panic' = M.panic

\* the least element of a non-empty set of numbers
Least(S) == CHOOSE x \in S : \A y \in S : x <= y

\* frames are interchangeable, and of the states that differ only by a
\* renaming of frames the model keeps one: the allocator hands out the frame
\* numbered like the slot that asks (root, interior frame of a group, page),
\* or the lowest free frame if that one is taken
RootSlot(a) == a * SpaceFrames
TableSlot(a, g) == a * SpaceFrames + 1 + g
DataSlot(a, vpn) == a * SpaceFrames + 1 + Cardinality(Groups) + vpn

\* frame_alloc: a frame of the free pool, None (NoFrame) if the pool is empty
frame_alloc(pool, slot) ==
    IF pool = {} THEN NoFrame
    ELSE IF slot \in pool THEN slot
    ELSE Least(pool)

\* frame_dealloc: the frame returns to the pool; a frame that is already
\* there is a double free, which aborts the kernel
frame_dealloc(M, f) ==
    IF f \in M.pool THEN [M EXCEPT !.panic = TRUE]
    ELSE [M EXCEPT !.pool = @ \cup {f}]

\* PageTable::translate: the leaf entry of a page, None (NoFrame) if invalid
translate(M, a, vpn) == M.leaf[a][vpn]

\* PageTable::map: installs the leaf entry; the interior frame of the page's
\* group is allocated first if the page table has none yet.  A leaf entry that
\* is valid already breaks the page table's invariant and aborts the kernel
PageTable_map(M, a, vpn, f) ==
    LET g == Group(vpn)
        t == frame_alloc(M.pool, TableSlot(a, g))
    IN  IF M.leaf[a][vpn] # NoFrame
        THEN [M EXCEPT !.panic = TRUE]
        ELSE IF M.tables[a][g] # NoFrame
        THEN [M EXCEPT !.leaf[a][vpn] = f]
        ELSE [M EXCEPT !.leaf[a][vpn] = f,
                       !.tables[a][g] = t,
                       !.pool = @ \ {t}]

\* PageTable::unmap: clears the leaf entry
PageTable_unmap(M, a, vpn) == [M EXCEPT !.leaf[a][vpn] = NoFrame]

\* MapArea::map_one: a zeroed frame from the allocator backs the page and is
\* owned by the region
map_one(M, a, vpn) ==
    LET f == frame_alloc(M.pool, DataSlot(a, vpn))
        M1 == [M EXCEPT !.pool = @ \ {f},
                        !.data[a][vpn] = f,
                        !.contents[f] = 0]
    IN  PageTable_map(M1, a, vpn, f)

\* MapArea::unmap_one: the region releases the page's frame and the leaf entry
\* is cleared; a leaf entry that is not valid there aborts the kernel
unmap_one(M, a, vpn) ==
    LET M1 == frame_dealloc(M, M.data[a][vpn])
    IN  IF translate(M, a, vpn) = NoFrame
        THEN [M1 EXCEPT !.data[a][vpn] = NoFrame, !.panic = TRUE]
        ELSE PageTable_unmap([M1 EXCEPT !.data[a][vpn] = NoFrame], a, vpn)

RECURSIVE map_pages(_, _, _)
map_pages(M, a, vs) ==
    IF vs = {} THEN M
    ELSE map_pages(map_one(M, a, Least(vs)), a, vs \ {Least(vs)})

RECURSIVE unmap_pages(_, _, _)
unmap_pages(M, a, vs) ==
    IF vs = {} THEN M
    ELSE unmap_pages(unmap_one(M, a, Least(vs)), a, vs \ {Least(vs)})

\* the frames mapping the pages vs takes: one per page and one per group of
\* pages that has no interior frame yet
frames_needed(M, a, vs) ==
    Cardinality(vs)
    + Cardinality({ g \in { Group(v) : v \in vs } : M.tables[a][g] = NoFrame })

\* MemorySet::is_mapped(start_va, end_va, mapped): every page of the range is
\* in the state `mapped`
is_mapped(M, a, start_va, end_va, mapped) ==
    \A v \in PageRange(start_va, end_va) : (translate(M, a, v) # NoFrame) = mapped

\* an insert_framed_area that never looks at the pages already mapped
insert_framed_area_over(M, a, start_va, end_va, perm) ==
    LET vs == PageRange(start_va, end_va)
    IN  IF vs = {} \/ frames_needed(M, a, vs) > Cardinality(M.pool) THEN M
        ELSE [map_pages(M, a, vs) EXCEPT
                 !.areas[a] = @ \cup {[lo |-> floor(start_va), hi |-> ceil(end_va),
                                       perm |-> perm]}]

\* MemorySet::insert_framed_area: Conflict if a page of the range is mapped,
\* ResourceExhausted if the pool cannot back the range; else a new region with
\* one fresh frame per page
insert_framed_area(M, a, start_va, end_va, perm) ==
    LET vs == PageRange(start_va, end_va)
    IN  IF \E v \in vs : translate(M, a, v) # NoFrame THEN M
        ELSE IF vs = {} \/ frames_needed(M, a, vs) > Cardinality(M.pool) THEN M
        ELSE [map_pages(M, a, vs) EXCEPT
                 !.areas[a] = @ \cup {[lo |-> floor(start_va), hi |-> ceil(end_va),
                                       perm |-> perm]}]

\* MemorySet::remove_framed_area: the regions that lie in the range are removed
\* with their frames if together they cover exactly the range; else nothing
remove_framed_area(M, a, start_va, end_va) ==
    LET vs == PageRange(start_va, end_va)
        cover == { r \in M.areas[a] : AreaPages(r) \subseteq vs }
    IN  IF vs # {} /\ UNION { AreaPages(r) : r \in cover } = vs
        THEN [unmap_pages(M, a, vs) EXCEPT !.areas[a] = @ \ cover]
        ELSE M

\* the pages of the heap: floor(heap_bottom) .. ceil(program_brk) - 1
HeapPages(brk) == PageRange(heap_bottom, brk)

\* TaskControlBlock::change_program_brk(size): None below the heap's base or
\* when growing would run into a mapped page, the end of the address space or
\* an empty pool; else the heap's pages follow the new break and the old break
\* is returned.  [ok, mem, old]
change_program_brk(M, a, size) ==
    LET old == M.brk[a]
        new == old + size
        fresh == HeapPages(new) \ HeapPages(old)
        gone == HeapPages(old) \ HeapPages(new)
        None == [ok |-> FALSE, mem |-> M, old |-> old]
    IN  IF new < heap_bottom THEN None
        ELSE IF size < 0
        THEN [ok |-> TRUE, old |-> old,
              mem |-> [unmap_pages(M, a, gone) EXCEPT !.brk[a] = new]]
        ELSE IF \E v \in fresh : v \notin Vpns \/ translate(M, a, v) # NoFrame
        THEN None
        ELSE IF frames_needed(M, a, fresh) > Cardinality(M.pool) THEN None
        ELSE [ok |-> TRUE, old |-> old,
              mem |-> [map_pages(M, a, fresh) EXCEPT !.brk[a] = new]]

\* MapPermission of the program image
ImagePerm == {"R", "W", "X", "U"}

EmptyMem ==
    [root |-> [a \in Spaces |-> NoFrame],
     tables |-> [a \in Spaces |-> [g \in Groups |-> NoFrame]],
     leaf |-> [a \in Spaces |-> [v \in Vpns |-> NoFrame]],
     data |-> [a \in Spaces |-> [v \in Vpns |-> NoFrame]],
     areas |-> [a \in Spaces |-> NoArea],
     brk |-> [a \in Spaces |-> 0],
     pool |-> Frames,
     contents |-> [f \in Frames |-> 0],
     panic |-> FALSE]

\* PageTable::new: the root frame of a new page table
PageTable_new(M, a) ==
    LET r == frame_alloc(M.pool, RootSlot(a))
    IN  [M EXCEPT !.root[a] = r, !.pool = @ \ {r}]

\* MemorySet::from_elf: a page table, the program image in page 0 and an empty
\* heap above it
from_elf(M, a) ==
    LET M1 == [PageTable_new(M, a) EXCEPT !.brk[a] = heap_bottom]
    IN  insert_framed_area(M1, a, 0, heap_bottom, ImagePerm)

\* no successful mmap or heap growth in the last step
NoPrev == [op |-> "none", space |-> 0, start |-> 0, len |-> 0,
           brk |-> 0, pages |-> {}, regions |-> {}, free |-> 0, tables |-> 0]

MemInit ==
    LET M == from_elf(EmptyMem, 0)
    IN  /\ root_ppn = M.root
        /\ table_frames = M.tables
        /\ leaf = M.leaf
        /\ data_frames = M.data
        /\ areas = M.areas
        /\ program_brk = M.brk
        /\ frame_pool = M.pool
        /\ contents = M.contents
        /\ mem_panic = FALSE
        /\ mem_current = 0
        /\ mem_ret = MemRet("boot", 0, 0, 0, 0)
        /\ mem_prev = NoPrev

\* the mapped pages of an address space
MappedPages(a) == { v \in Vpns : leaf[a][v] # NoFrame }

\* the interior frames of a page table
InteriorFrames(a) == { g \in Groups : table_frames[a][g] # NoFrame }

\* the regions of an address space: the mapped regions and the heap
Regions(a) ==
    areas[a] \cup {[lo |-> floor(heap_bottom), hi |-> ceil(program_brk[a]),
                    perm |-> HeapPerm]}

\* the address space before a step, for the history
Before(op, start, len) ==
    [op |-> op, space |-> mem_current, start |-> start, len |-> len,
     brk |-> program_brk[mem_current], pages |-> MappedPages(mem_current),
     regions |-> Regions(mem_current), free |-> Cardinality(frame_pool),
     tables |-> Cardinality(InteriorFrames(mem_current))]

\* the history after sys_munmap(start, len): "unmapped" if the step before was
\* the sys_mmap that mapped the same range
AfterMunmap(start, len) ==
    IF /\ mem_ret.op = "mmap"
       /\ mem_ret.val = 0
       /\ mem_ret.start = start
       /\ mem_ret.len = len
    THEN [NoPrev EXCEPT !.op = "unmapped"]
    ELSE NoPrev

\* the history after sys_sbrk(size): the address space before a growth; after
\* the sys_sbrk(-d) that follows a growth by d, what was there before the
\* growth, as "shrunk"
AfterSbrk(ok, size) ==
    IF ok /\ size > 0 THEN Before("sbrk", 0, size)
    ELSE IF mem_prev.op = "sbrk" /\ mem_prev.len = -size
    THEN [mem_prev EXCEPT !.op = "shrunk"]
    ELSE NoPrev

\* a memory syscall is made by the current task of a kernel that has not aborted
InMemSyscall == ~mem_panic /\ root_ppn[mem_current] # NoFrame

\* permissions that always hold R
permissions_always_readable(port) ==
    {"U", "R"} \cup (IF (port \div 2) % 2 = 1 THEN {"W"} ELSE {})
               \cup (IF (port \div 4) % 2 = 1 THEN {"X"} ELSE {})

\* MapPermission::U plus the R, W, X named by bits 0, 1, 2 of port
permissions(port) ==
    {"U"} \cup (IF port % 2 = 1 THEN {"R"} ELSE {})
          \cup (IF (port \div 2) % 2 = 1 THEN {"W"} ELSE {})
          \cup (IF (port \div 4) % 2 = 1 THEN {"X"} ELSE {})

\* a sys_mmap without the current_task_is_mapped check
sys_mmap_no_conflict_check(start, len, port) ==
    /\ InMemSyscall
    /\ IF ~aligned(start) \/ port \div 8 # 0 \/ port % 8 = 0
       THEN /\ SetMem(Mem)
            /\ mem_ret' = MemRet("mmap", start, len, port, -1)
            /\ mem_prev' = NoPrev
       ELSE /\ SetMem(insert_framed_area_over(Mem, mem_current, start, start + len,
                                              permissions(port)))
            /\ mem_ret' = MemRet("mmap", start, len, port, 0)
            /\ mem_prev' = Before("mmap", start, len)
    /\ UNCHANGED mem_current

\* a sys_mmap that accepts every port
sys_mmap_any_port(start, len, port) ==
    /\ InMemSyscall
    /\ IF ~aligned(start) \/ ~is_mapped(Mem, mem_current, start, start + len, FALSE)
       THEN /\ SetMem(Mem)
            /\ mem_ret' = MemRet("mmap", start, len, port, -1)
            /\ mem_prev' = NoPrev
       ELSE /\ SetMem(insert_framed_area(Mem, mem_current, start, start + len,
                                         permissions(port)))
            /\ mem_ret' = MemRet("mmap", start, len, port, 0)
            /\ mem_prev' = Before("mmap", start, len)
    /\ UNCHANGED mem_current

\* sys_mmap(_start, _len, _port): -1 for a start that is not page-aligned, for
\* a port with a bit outside the low three or with none of them, and for a
\* range with a mapped page; else the region is inserted and 0 is returned
sys_mmap(start, len, port) ==
    /\ InMemSyscall
    /\ IF \/ ~aligned(start)
          \/ port \div 8 # 0
          \/ port % 8 = 0
          \/ ~is_mapped(Mem, mem_current, start, start + len, FALSE)
       THEN /\ SetMem(Mem)
            /\ mem_ret' = MemRet("mmap", start, len, port, -1)
            /\ mem_prev' = NoPrev
       ELSE /\ SetMem(insert_framed_area(Mem, mem_current, start, start + len,
                                         permissions(port)))
            /\ mem_ret' = MemRet("mmap", start, len, port, 0)
            /\ mem_prev' = Before("mmap", start, len)
    /\ UNCHANGED mem_current

\* a sys_munmap that unmaps the mapped pages of a range it only partly covers
sys_munmap_partial(start, len) ==
    /\ InMemSyscall
    /\ IF ~aligned(start) \/ ~aligned(start + len)
       THEN /\ SetMem(Mem)
            /\ mem_ret' = MemRet("munmap", start, len, 0, -1)
       ELSE /\ SetMem(unmap_pages(Mem, mem_current,
                                  PageRange(start, start + len)
                                      \cap { v \in Vpns : data_frames[mem_current][v] # NoFrame }))
            /\ mem_ret' = MemRet("munmap", start, len, 0, 0)
    /\ mem_prev' = AfterMunmap(start, len)
    /\ UNCHANGED mem_current

\* a sys_munmap that leaves the region in place and reports success
sys_munmap_keeps_region(start, len) ==
    /\ InMemSyscall
    /\ IF \/ ~aligned(start)
          \/ ~aligned(start + len)
          \/ ~is_mapped(Mem, mem_current, start, start + len, TRUE)
       THEN mem_ret' = MemRet("munmap", start, len, 0, -1)
       ELSE mem_ret' = MemRet("munmap", start, len, 0, 0)
    /\ SetMem(Mem)
    /\ mem_prev' = AfterMunmap(start, len)
    /\ UNCHANGED mem_current

\* sys_munmap(_start, _len): -1 for a start or an end that is not page-aligned
\* and for a range with an unmapped page; else the region is removed and 0 is
\* returned
sys_munmap(start, len) ==
    /\ InMemSyscall
    /\ IF \/ ~aligned(start)
          \/ ~aligned(start + len)
          \/ ~is_mapped(Mem, mem_current, start, start + len, TRUE)
       THEN /\ SetMem(Mem)
            /\ mem_ret' = MemRet("munmap", start, len, 0, -1)
       ELSE /\ SetMem(remove_framed_area(Mem, mem_current, start, start + len))
            /\ mem_ret' = MemRet("munmap", start, len, 0, 0)
    /\ mem_prev' = AfterMunmap(start, len)
    /\ UNCHANGED mem_current

\* a sys_sbrk that passes the magnitude of size on, so that the heap never
\* shrinks
sys_sbrk_grows_only(size) ==
    /\ InMemSyscall
    /\ LET got == change_program_brk(Mem, mem_current, IF size < 0 THEN -size ELSE size)
       IN  /\ SetMem(got.mem)
           /\ mem_ret' = MemRet("sbrk", 0, size, 0, IF got.ok THEN got.old ELSE -1)
           /\ mem_prev' = AfterSbrk(got.ok, size)
    /\ UNCHANGED mem_current

\* a sys_sbrk that returns the new break
sys_sbrk_returns_new(size) ==
    /\ InMemSyscall
    /\ LET got == change_program_brk(Mem, mem_current, size)
       IN  /\ SetMem(got.mem)
           /\ mem_ret' = MemRet("sbrk", 0, size, 0,
                                  IF got.ok THEN got.old + size ELSE -1)
           /\ mem_prev' = AfterSbrk(got.ok, size)
    /\ UNCHANGED mem_current

\* sys_sbrk(size): the old break if change_program_brk accepts the change, else -1
sys_sbrk(size) ==
    /\ InMemSyscall
    /\ LET got == change_program_brk(Mem, mem_current, size)
       IN  /\ SetMem(got.mem)
           /\ mem_ret' = MemRet("sbrk", 0, size, 0, IF got.ok THEN got.old ELSE -1)
           /\ mem_prev' = AfterSbrk(got.ok, size)
    /\ UNCHANGED mem_current

\* a fork whose child maps the parent's frames instead of copies of them
fork_shares_frames(M, a, b) ==
    LET M1 == PageTable_new(M, b)
    IN  [M1 EXCEPT !.areas[b] = M.areas[a],
                   !.brk[b] = M.brk[a],
                   !.leaf[b] = M.leaf[a],
                   !.data[b] = M.data[a],
                   !.tables[b] = M.tables[a]]

\* MemorySet::from_existed_user (fork_copy): a new page table, every mapped
\* page of the parent copied into a fresh frame, the same regions and break
fork_copy(M, a, b) ==
    LET vs == { v \in Vpns : M.data[a][v] # NoFrame }
        M1 == map_pages(PageTable_new(M, b), b, vs)
    IN  [M1 EXCEPT !.areas[b] = M.areas[a],
                   !.brk[b] = M.brk[a],
                   !.contents = [f \in Frames |->
                        IF \E v \in vs : M1.data[b][v] = f
                        THEN M.contents[M.data[a][CHOOSE v \in vs : M1.data[b][v] = f]]
                        ELSE M1.contents[f]]]

\* TaskControlBlock::fork, as sys_fork calls it: the address space of the
\* new task is a copy of the current one
TaskControlBlock_fork ==
    /\ InMemSyscall
    /\ \E b \in Spaces :
        /\ root_ppn[b] = NoFrame
        /\ SetMem(fork_copy(Mem, mem_current, b))
        /\ mem_ret' = MemRet("fork", 0, 0, 0, b)
    /\ mem_prev' = NoPrev
    /\ UNCHANGED mem_current

\* the scheduler switches to the other task
switch_task ==
    /\ ~mem_panic
    /\ \E b \in Spaces :
        /\ b # mem_current
        /\ root_ppn[b] # NoFrame
        /\ mem_current' = b
    /\ mem_ret' = MemRet("switch", 0, 0, 0, 0)
    /\ mem_prev' = NoPrev
    /\ SetMem(Mem)

\* the values user code stores
Values == {0, 1}

\* the current task stores a value in one of its mapped pages
user_store(vpn, val) ==
    /\ InMemSyscall
    /\ leaf[mem_current][vpn] # NoFrame
    /\ contents' = [contents EXCEPT ![leaf[mem_current][vpn]] = val]
    /\ mem_ret' = MemRet("store", vpn * PAGE_SIZE, 0, 0, val)
    /\ mem_prev' = NoPrev
    /\ UNCHANGED <<root_ppn, table_frames, leaf, data_frames, areas, program_brk,
                   frame_pool, mem_current, mem_panic>>

\* the loop of TaskManager::current_task_mmap from page i on: -1 if the page
\* that VirtAddr(page_start).ceil() names is mapped or the pool is empty; else
\* a frame is allocated, page_table.map installs its ppn for page
\* page_start / PAGE_SIZE, and at the end of the iteration the local `frame`
\* goes out of scope, which releases the frame: nothing else holds it.  The
\* pages of the iterations before a -1 stay mapped; a map over a valid leaf
\* entry aborts the kernel.  [mem, val]
RECURSIVE task_mmap_loop(_, _, _, _, _)
task_mmap_loop(M, a, start, i, num_pages) ==
    IF i = num_pages THEN [mem |-> M, val |-> 0]
    ELSE LET page_start == start + i * PAGE_SIZE
             f == frame_alloc(M.pool, DataSlot(a, floor(page_start)))
             M1 == [M EXCEPT !.pool = @ \ {f}, !.contents[f] = 0]
             M2 == PageTable_map(M1, a, floor(page_start), f)
             M3 == frame_dealloc(M2, f)
         IN  IF translate(M, a, ceil(page_start)) # NoFrame
             THEN [mem |-> M, val |-> -1]
             ELSE IF f = NoFrame THEN [mem |-> M, val |-> -1]
             ELSE IF M2.panic THEN [mem |-> M2, val |-> -1]
             ELSE task_mmap_loop(M3, a, start, i + 1, num_pages)

\* TaskManager::current_task_mmap(start, num_pages, pteflags)
TaskManager_current_task_mmap(start, num_pages) ==
    /\ InMemSyscall
    /\ LET got == task_mmap_loop(Mem, mem_current, start, 0, num_pages)
       IN  /\ SetMem(got.mem)
           /\ mem_ret' = MemRet("task_mmap", start, num_pages * PAGE_SIZE, 0, got.val)
    /\ mem_prev' = NoPrev
    /\ UNCHANGED mem_current

\* the loop of TaskManager::current_task_unmap from page i on: -1 if the page
\* is not mapped; else frame_dealloc is called on the page table's root_ppn and
\* the leaf entry of the page is cleared.  The second release of the root
\* frame is a double free, which aborts the kernel.  [mem, val]
RECURSIVE task_unmap_loop(_, _, _, _, _)
task_unmap_loop(M, a, start, i, num_pages) ==
    IF i = num_pages THEN [mem |-> M, val |-> 0]
    ELSE LET page_start == start + i * PAGE_SIZE
             M1 == frame_dealloc(M, M.root[a])
         IN  IF translate(M, a, floor(page_start)) = NoFrame
             THEN [mem |-> M, val |-> -1]
             ELSE IF M1.panic THEN [mem |-> M1, val |-> -1]
             ELSE task_unmap_loop(PageTable_unmap(M1, a, floor(page_start)),
                                  a, start, i + 1, num_pages)

\* TaskManager::current_task_unmap(start, num_pages)
TaskManager_current_task_unmap(start, num_pages) ==
    /\ InMemSyscall
    /\ LET got == task_unmap_loop(Mem, mem_current, start, 0, num_pages)
       IN  /\ SetMem(got.mem)
           /\ mem_ret' = MemRet("task_unmap", start, num_pages * PAGE_SIZE, 0, got.val)
    /\ mem_prev' = NoPrev
    /\ UNCHANGED mem_current

\* TaskManager::current_mmap(start_va, end_va, permissions)
current_mmap(start_va, end_va, perm) ==
    /\ InMemSyscall
    /\ SetMem(insert_framed_area(Mem, mem_current, start_va, end_va, perm))
    /\ mem_ret' = MemRet("current_mmap", start_va, end_va - start_va, 0, 0)
    /\ mem_prev' = NoPrev
    /\ UNCHANGED mem_current

\* TaskManager::current_unmap(start_va, end_va)
current_unmap(start_va, end_va) ==
    /\ InMemSyscall
    /\ SetMem(remove_framed_area(Mem, mem_current, start_va, end_va))
    /\ mem_ret' = MemRet("current_unmap", start_va, end_va - start_va, 0, 0)
    /\ mem_prev' = NoPrev
    /\ UNCHANGED mem_current

\* the slot of the other consumers: the highest free frame
OtherSlot(pool) == CHOOSE x \in pool : \A y \in pool : y <= x

\* frame_alloc by another consumer of the allocator (the kernel, the address
\* space of a task that is not modelled): a frame leaves the free pool
frame_alloc_other ==
    /\ ~mem_panic
    /\ frame_pool # {}
    /\ frame_pool' = frame_pool \ {frame_alloc(frame_pool, OtherSlot(frame_pool))}
    /\ mem_ret' = MemRet("alloc", 0, 0, 0, 0)
    /\ mem_prev' = NoPrev
    /\ UNCHANGED <<root_ppn, table_frames, leaf, data_frames, areas, program_brk,
                   contents, mem_current, mem_panic>>

\* the page counts passed to current_task_mmap and current_task_unmap
NumPages == 0 .. (MaxVpn - 1)
\* the start addresses passed to current_task_mmap: every page, and one
\* address inside page 1
TaskMmapStarts == { v * PAGE_SIZE : v \in Vpns } \cup {PAGE_SIZE + 8}

\* the arguments user code passes to sys_mmap, sys_munmap and sys_sbrk
MmapStarts == { v * PAGE_SIZE : v \in Vpns } \cup {PAGE_SIZE + 8}
MmapLens == { n * PAGE_SIZE : n \in 0 .. (MaxVpn - 1) } \cup {8}
MmapPorts == {0, 1, 6, 9}
SbrkSizes == {PAGE_SIZE, -PAGE_SIZE, PAGE_SIZE \div 2, -(PAGE_SIZE \div 2)}
\* the end of the address space
MaxVa == MaxVpn * PAGE_SIZE

\* no task has waited yet
FairInit == waited = [i \in TaskIds |-> 0]

\* the cell is not borrowed when the kernel starts
CellInit ==
    /\ borrowed = FALSE
    /\ borrow_fault = "none"
    /\ last_call = "boot"

\* ------------------------------------------------------------------ file syscalls

\* the descriptors a task may hold in the model
MaxFd == 4

NoFile == "none"
NoStat == [nlink |-> 0, links |-> << >>, present |-> FALSE]

\* the files of the filesystem
FsFiles == {"a", "b"}

\* open_file(path, flags): the inode of the file, None if there is none
open_file(path) == IF path \in FsFiles THEN path ELSE NoFile

\* Stat::from_args(0, StatMode::FILE, nlink, links)
Stat_from_args(nlink, links) ==
    [nlink |-> nlink, links |-> links, present |-> TRUE]

\* Stat::exist_link(path): false for nlink = 0, else whether path is a link
exist_link(st, path) ==
    IF st.nlink = 0 THEN FALSE
    ELSE \E i \in 1 .. Len(st.links) : st.links[i] = path

\* TaskControlBlockInner::alloc_fd: the first empty slot of fd_table, or a new
\* slot pushed at its end
alloc_fd(table) ==
    LET free == { i \in 1 .. Len(table) : table[i] = NoFile }
    IN  IF free # {}
        THEN [table |-> table,
              fd |-> (CHOOSE i \in free : \A j \in free : i <= j) - 1]
        ELSE [table |-> Append(table, NoFile), fd |-> Len(table)]

FsRet(op, path, fd, val) == [op |-> op, path |-> path, fd |-> fd, val |-> val]

\* a new task holds stdin, stdout and stderr and no Stat
FsInit ==
    /\ fd_table = <<"stdin", "stdout", "stdout">>
    /\ st_table = [fd \in 0 .. (MaxFd - 1) |-> NoStat]
    /\ fs_ret = FsRet("boot", NoFile, 0, 0)

\* sys_open(path, flags): -1 if open_file finds nothing; else the inode is
\* stored at alloc_fd(); a slot without a Stat gets a new one and fd is
\* returned; a slot with a Stat returns fd if path is one of its links, else -1
sys_open(path) ==
    /\ (\A i \in 1 .. Len(fd_table) : fd_table[i] # NoFile) => Len(fd_table) < MaxFd
    /\ IF open_file(path) # NoFile
       THEN LET a == alloc_fd(fd_table)
                fd == a.fd
            IN  /\ fd_table' = [a.table EXCEPT ![fd + 1] = open_file(path)]
                /\ IF ~st_table[fd].present
                   THEN /\ st_table' = [st_table EXCEPT
                                           ![fd] = Stat_from_args(1, <<path>>)]
                        /\ fs_ret' = FsRet("open", path, fd, fd)
                   ELSE /\ st_table' = st_table
                        /\ fs_ret' = FsRet("open", path, fd,
                                           IF exist_link(st_table[fd], path)
                                           THEN fd ELSE -1)
       ELSE /\ fs_ret' = FsRet("open", path, 0, -1)
            /\ UNCHANGED <<fd_table, st_table>>

\* sys_close(fd): -1 for fd beyond the table or an empty slot; else the slot
\* is emptied and 0 is returned
sys_close(fd) ==
    IF fd >= Len(fd_table) \/ fd_table[fd + 1] = NoFile
    THEN /\ fs_ret' = FsRet("close", NoFile, fd, -1)
         /\ UNCHANGED <<fd_table, st_table>>
    ELSE /\ fd_table' = [fd_table EXCEPT ![fd + 1] = NoFile]
         /\ fs_ret' = FsRet("close", NoFile, fd, 0)
         /\ UNCHANGED st_table

Init == SchedInit /\ FairInit /\ CellInit /\ ProcInit /\ ExecInit /\ MemInit /\ FsInit

\* what the steps of each specification leave alone
not_sched == <<fair_vars, cell_vars, proc_vars, exec_vars, mem_vars, fs_vars>>
not_proc == <<sched_vars, fair_vars, cell_vars, exec_vars, mem_vars, fs_vars>>
not_mem == <<sched_vars, fair_vars, cell_vars, proc_vars, exec_vars, fs_vars>>
not_fair == <<cell_vars, proc_vars, exec_vars, mem_vars, fs_vars>>
not_cell == <<fair_vars, proc_vars, exec_vars, mem_vars, fs_vars>>
not_fs == <<sched_vars, fair_vars, cell_vars, proc_vars, exec_vars, mem_vars>>

Next ==
    \/ run_first_task /\ UNCHANGED not_sched
    \/ mark_current_suspended /\ UNCHANGED not_sched
    \/ mark_current_exited /\ UNCHANGED not_sched
    \/ run_next_task_switch /\ UNCHANGED not_sched
    \/ run_next_task_panic /\ UNCHANGED not_sched
    \/ Tick /\ UNCHANGED not_sched

Spec == Init /\ [][Next]_vars

\* the history of a suspend or exit of the running task: the tasks that are
\* Ready have waited through one more, the task that suspends starts to wait
CountWait ==
    waited' = [i \in TaskIds |->
                  IF i = current_task THEN 0
                  ELSE IF task_status[i] = "Ready" THEN waited[i] + 1
                  ELSE waited[i]]

\* the TaskManager with the history of waiting
NextFair ==
    \/ run_first_task /\ UNCHANGED waited /\ UNCHANGED not_fair
    \/ mark_current_suspended /\ CountWait /\ UNCHANGED not_fair
    \/ mark_current_exited /\ CountWait /\ UNCHANGED not_fair
    \/ run_next_task_switch /\ UNCHANGED waited /\ UNCHANGED not_fair
    \/ run_next_task_panic /\ UNCHANGED waited /\ UNCHANGED not_fair
    \/ Tick /\ UNCHANGED waited /\ UNCHANGED not_fair

\* every running task eventually suspends or exits (it yields, exits or is
\* preempted by the timer), and the kernel completes the steps it has begun
SpecFair ==
    /\ Init
    /\ [][NextFair]_vars
    /\ WF_vars(run_first_task /\ UNCHANGED waited /\ UNCHANGED not_fair)
    /\ WF_vars((mark_current_suspended \/ mark_current_exited)
                 /\ CountWait /\ UNCHANGED not_fair)
    /\ WF_vars(run_next_task_switch /\ UNCHANGED waited /\ UNCHANGED not_fair)

\* what one step of a function does to the cell: exclusive_access panics if a
\* borrow is out and takes the borrow otherwise, drop gives it back, and
\* __switch leaves the task with whatever it holds
cell_step(st, op) ==
    IF st.fault = "already borrowed" THEN st
    ELSE IF op = "exclusive_access"
    THEN IF st.held THEN [st EXCEPT !.fault = "already borrowed"]
         ELSE [st EXCEPT !.held = TRUE]
    ELSE IF op = "drop" THEN [st EXCEPT !.held = FALSE]
    ELSE IF st.held THEN [st EXCEPT !.fault = "held across switch"]
    ELSE st

RECURSIVE cell_steps(_, _)
cell_steps(st, ops) ==
    IF ops = << >> THEN st ELSE cell_steps(cell_step(st, Head(ops)), Tail(ops))

\* a function of the TaskManager runs the steps ops on the cell
Access(name, ops) ==
    /\ borrow_fault # "already borrowed"
    /\ LET st == cell_steps([held |-> borrowed, fault |-> borrow_fault], ops)
       IN  /\ borrowed' = st.held
           /\ borrow_fault' = st.fault
    /\ last_call' = name

\* run_first_task: inner = exclusive_access(), drop(inner), __switch
run_first_task_cell == <<"exclusive_access", "drop", "__switch">>
\* mark_current_suspended, mark_current_exited, find_next_task and every
\* accessor of the current task: inner = exclusive_access(), released when
\* the function returns
scoped_cell == <<"exclusive_access", "drop">>
\* a run_next_task without the drop(inner) before __switch
run_next_task_cell_no_drop ==
    scoped_cell \o <<"exclusive_access", "__switch">>
\* run_next_task, Some(next): find_next_task(), then inner =
\* exclusive_access(), drop(inner), __switch
run_next_task_cell ==
    scoped_cell \o <<"exclusive_access", "drop", "__switch">>
\* the accessors of the current task
Accessors == {"get_current_token", "get_current_trap_cx",
              "change_current_program_brk", "current_task_mmap",
              "current_task_unmap", "is_mapped", "current_mmap",
              "current_unmap", "current_task_status",
              "current_task_syscalls", "current_task_syscalls_increase",
              "current_task_cost_time"}

\* the TaskManager with its inner cell
NextCell ==
    \/ run_first_task /\ Access("run_first_task", run_first_task_cell)
                      /\ UNCHANGED not_cell
    \/ mark_current_suspended /\ Access("mark_current_suspended", scoped_cell)
                              /\ UNCHANGED not_cell
    \/ mark_current_exited /\ Access("mark_current_exited", scoped_cell)
                           /\ UNCHANGED not_cell
    \/ run_next_task_switch /\ Access("run_next_task", run_next_task_cell)
                            /\ UNCHANGED not_cell
    \/ run_next_task_panic /\ Access("run_next_task", scoped_cell)
                           /\ UNCHANGED not_cell
    \/ \E f \in Accessors :
          /\ pc = "user"
          /\ Access(f, scoped_cell)
          /\ UNCHANGED sched_vars
          /\ UNCHANGED not_cell

SpecCell == Init /\ [][NextCell]_vars

\* the file syscalls of one task
NextFs ==
    \/ \E path \in FsFiles \cup {"x"} : sys_open(path) /\ UNCHANGED not_fs
    \/ \E fd \in 0 .. MaxFd : sys_close(fd) /\ UNCHANGED not_fs

SpecFs == Init /\ [][NextFs]_vars

NextProc ==
    \/ run_tasks /\ UNCHANGED not_proc
    \/ sys_yield /\ UNCHANGED not_proc
    \/ \E code \in ExitCodes : sys_exit(code) /\ UNCHANGED not_proc
    \/ sys_fork /\ UNCHANGED not_proc
    \/ \E path \in Paths : sys_spawn(path) /\ UNCHANGED not_proc
    \/ \E pid \in WaitArgs : sys_waitpid(pid) /\ UNCHANGED not_proc

SpecProc == Init /\ [][NextProc]_vars

\* the histories of the scenario forget a task once it is deallocated
Forget(S) == { p \in S : proc_status'[p] # "None" }

ForgetDeallocated ==
    /\ execed' = Forget(execed)
    /\ exited' = [p \in Pids |-> IF proc_status'[p] = "None" THEN NotExited
                                 ELSE exited[p]]

\* the code passed to sys_exit is recorded in the history
ExitRecorded(code) ==
    /\ execed' = Forget(execed)
    /\ exited' = [p \in Pids |-> IF proc_status'[p] = "None" THEN NotExited
                                 ELSE IF p = processor_current THEN code
                                 ELSE exited[p]]

\* the tasks holding a pid
LiveTasks == { p \in Pids : proc_status[p] # "None" }

\* the process syscalls with sys_exec; sys_fork is called while fewer than
\* MaxLive tasks are alive
NextExec ==
    \/ run_tasks /\ UNCHANGED <<sched_vars, fair_vars, cell_vars, fs_vars, mem_vars, execed, exited>>
                 /\ reaped_execed' = FALSE
    \/ sys_yield /\ UNCHANGED <<sched_vars, fair_vars, cell_vars, fs_vars, mem_vars, execed, exited>>
                 /\ reaped_execed' = FALSE
    \/ \E code \in ExitCodes :
          sys_exit(code) /\ ExitRecorded(code) /\ UNCHANGED <<sched_vars, fair_vars, cell_vars, fs_vars, mem_vars>>
                         /\ reaped_execed' = FALSE
    \/ Cardinality(LiveTasks) < MaxLive
          /\ sys_fork /\ UNCHANGED <<sched_vars, fair_vars, cell_vars, fs_vars, mem_vars, execed, exited>>
          /\ reaped_execed' = FALSE
    \/ \E path \in Paths :
          sys_exec(path) /\ UNCHANGED <<sched_vars, fair_vars, cell_vars, fs_vars, mem_vars, exited>>
                         /\ reaped_execed' = FALSE
    \/ \E pid \in WaitArgs :
          sys_waitpid(pid) /\ ForgetDeallocated /\ UNCHANGED <<sched_vars, fair_vars, cell_vars, fs_vars, mem_vars>>
                           /\ reaped_execed' = (ret'.val \in execed)

SpecExec == Init /\ [][NextExec]_vars

\* the memory syscalls of one task
NextMem ==
    \/ \E start \in MmapStarts, len \in MmapLens, port \in MmapPorts :
          /\ start + len <= MaxVa
          /\ sys_mmap(start, len, port)
          /\ UNCHANGED not_mem
    \/ \E start \in MmapStarts, len \in MmapLens :
          /\ start + len <= MaxVa
          /\ sys_munmap(start, len)
          /\ UNCHANGED not_mem
    \/ \E size \in SbrkSizes : sys_sbrk(size) /\ UNCHANGED not_mem

SpecMem == Init /\ [][NextMem]_vars

\* the topmost page of the address space
TopVa == (MaxVpn - 1) * PAGE_SIZE

\* two tasks after a fork: each maps and unmaps the topmost page, moves its
\* break by a page and stores into its pages, and the scheduler switches
\* between them
NextFork ==
    \/ sys_mmap(TopVa, PAGE_SIZE, 3) /\ UNCHANGED not_mem
    \/ sys_munmap(TopVa, PAGE_SIZE) /\ UNCHANGED not_mem
    \/ \E size \in {PAGE_SIZE, -PAGE_SIZE} : sys_sbrk(size) /\ UNCHANGED not_mem
    \/ TaskControlBlock_fork /\ UNCHANGED not_mem
    \/ switch_task /\ UNCHANGED not_mem
    \/ \E v \in Vpns, val \in Values : user_store(v, val) /\ UNCHANGED not_mem

SpecFork == Init /\ [][NextFork]_vars

\* the memory syscalls of one task while other consumers drain the free pool
NextFull ==
    \/ \E v \in Vpns, n \in NumPages :
          /\ v + n <= MaxVpn
          /\ sys_mmap(v * PAGE_SIZE, n * PAGE_SIZE, 3)
          /\ UNCHANGED not_mem
    \/ \E v \in Vpns, n \in NumPages :
          /\ v + n <= MaxVpn
          /\ sys_munmap(v * PAGE_SIZE, n * PAGE_SIZE)
          /\ UNCHANGED not_mem
    \/ frame_alloc_other /\ UNCHANGED not_mem

SpecFull == Init /\ [][NextFull]_vars

\* the mapping operations of the TaskManager on the current task
NextPt ==
    \/ \E start \in TaskMmapStarts, n \in NumPages :
          /\ ceil(start) + n <= MaxVpn
          /\ TaskManager_current_task_mmap(start, n)
          /\ UNCHANGED not_mem
    \/ \E v \in Vpns, n \in NumPages :
          /\ v + n <= MaxVpn
          /\ TaskManager_current_task_unmap(v * PAGE_SIZE, n)
          /\ UNCHANGED not_mem
    \/ \E v \in Vpns, n \in NumPages :
          /\ v + n <= MaxVpn
          /\ current_mmap(v * PAGE_SIZE, (v + n) * PAGE_SIZE, permissions(3))
          /\ UNCHANGED not_mem
    \/ \E v \in Vpns, n \in NumPages :
          /\ v + n <= MaxVpn
          /\ current_unmap(v * PAGE_SIZE, (v + n) * PAGE_SIZE)
          /\ UNCHANGED not_mem

SpecPt == Init /\ [][NextPt]_vars

\* ------------------------------------------------------------------ claims on Spec

\* C1: at every step at most one task is Running; once the first task has been
\* started, whenever a suspend or exit has completed (the kernel is back in user
\* mode) exactly one task is Running and it is tasks[current_task].
C1_ExactlyOneRunning ==
    /\ Cardinality(Running) <= 1
    /\ pc = "user" => Running = {current_task}

\* C1 witness: a suspend and an exit have both completed
C1_Witness ==
    /\ pc = "user"
    /\ Len(resumed) >= 2
    /\ \E i \in TaskIds : task_status[i] = "Exited"
    /\ \E i \in TaskIds : task_status[i] = "Ready" /\ i \in Range(resumed)

\* C2: every change of a task's status is Ready->Running (made by the scheduler
\* steps), Running->Ready (suspend) or Running->Exited (exit); an Exited task
\* keeps its status and no task goes from Ready to Exited.
C2_StatusTransitions ==
    [][\A i \in TaskIds :
        task_status'[i] # task_status[i] =>
            \/ /\ task_status[i] = "Ready" /\ task_status'[i] = "Running"
               /\ pc \in {"boot", "suspended", "exited"}
            \/ /\ task_status[i] = "Running" /\ task_status'[i] = "Ready"
               /\ pc = "user" /\ pc' = "suspended"
            \/ /\ task_status[i] = "Running" /\ task_status'[i] = "Exited"
               /\ pc = "user" /\ pc' = "exited"]_vars

\* C2 witness: one task has exited, another was suspended and is Ready again,
\* a third one has been picked and is Running
C2_Witness ==
    /\ \E i \in TaskIds : task_status[i] = "Exited"
    /\ \E i \in TaskIds : task_status[i] = "Ready" /\ start_time[i] > 0
    /\ \E i \in TaskIds : task_status[i] = "Running" /\ switched.to = i

\* C3: the task find_next_task chooses and run_next_task makes Running had status
\* Ready; an Exited task is never made current again and is never the target of
\* a context switch.
C3_ExitedNeverRescheduled ==
    [][/\ (pc # "user" /\ pc' = "user") =>
            /\ task_status[current_task'] = "Ready"
            /\ switched'.to = current_task'
            /\ switched'.was = "Ready"
       /\ \A i \in TaskIds : task_status[i] = "Exited" =>
            /\ task_status'[i] = "Exited"
            /\ (current_task' = i => current_task = i)
            /\ (switched'.to = i => switched' = switched)]_vars

\* C3 witness: the scheduler has switched away from a task that exited, while
\* another Exited task was lying in the array
C3_Witness ==
    /\ pc = "user"
    /\ switched.from # NoTask
    /\ task_status[switched.from] = "Exited"
    /\ Cardinality({i \in TaskIds : task_status[i] = "Exited"}) >= 2

\* C4: the task run_next_task switches to is the one the FIFO run queue returns
\* (enqueue at the back on suspend, dequeue from the front); with every task
\* yielding once from the start, the resumption order is T2, T3, ..., T1.
C4_FifoOrder ==
    /\ pc = "user" => fifo_out = current_task
    /\ pc = "panicked" => fifo = << >>
    /\ (yields_only /\ Len(resumed) = NumApp) =>
            resumed = [k \in 1 .. NumApp |-> k % NumApp]

\* C4 witness: every task has yielded once and the first one runs again
C4_Witness ==
    /\ yields_only
    /\ pc = "user"
    /\ Len(resumed) = NumApp
    /\ current_task = 0

\* C5 as stated: the kernel never reaches a fatal state, an empty set of Ready
\* tasks makes it idle.
C5_Original_IdlesWhenNoneReady == pc # "panicked"

\* C5 amended: when run_next_task finds no Ready task it panics ("All
\* applications completed!"): the kernel stops, it does not idle; and it panics
\* in no other case.
C5_PanicsWhenNoneReady ==
    [][/\ (pc \in {"suspended", "exited"} /\ ReadySet = {}) => pc' = "panicked"
       /\ pc' = "panicked" => (ReadySet = {} /\ UNCHANGED task_status)]_vars

\* C5 witness: the last running task has exited and run_next_task has panicked
C5_Witness == pc = "panicked" /\ \A i \in TaskIds : task_status[i] = "Exited"

\* ------------------------------------------------------------------ claims on SpecProc

\* the step is a call of sys_waitpid
WaitStep == ret'.op \in {"waitpid", "waitpid_panic"}

\* what a failed sys_waitpid must leave alone
WaitFrame == UNCHANGED <<proc_status, children, exit_code, strong_count,
                         ready_queue, processor_current, kernel_panic>>

\* C6: sys_waitpid(pid, ptr) returns -1 when the caller's children hold no entry
\* with that pid (pid = -1: when the list is empty); the call returns at once
\* (the caller stays the current task), and the children list, every task's
\* status and the caller's memory stay as they were.
C6_NoSuchChild ==
    [][WaitStep =>
        LET me == processor_current
            pid == ret'.arg
            none == IF pid = -1 THEN children[me] = << >>
                    ELSE pid \notin Range(children[me])
        IN  none => /\ ret'.op = "waitpid"
                    /\ ret'.val = -1
                    /\ ret'.written = Uninit
                    /\ WaitFrame]_vars

\* C6 witness: -1 for a pid that is not among the caller's (several) children
C6_Witness ==
    /\ ret.op = "waitpid"
    /\ ret.val = -1
    /\ ret.arg >= 0
    /\ Len(children[processor_current]) >= 2

\* C7: sys_waitpid(pid, ptr) on a child of the caller that has not exited
\* returns -2, stores nothing and leaves the child in the children list; as the
\* call changes nothing, repeating it gives -2 until the child exits.
C7_NotReady ==
    [][WaitStep =>
        LET me == processor_current
            pid == ret'.arg
        IN  (pid \in Range(children[me]) /\ proc_status[pid] # "Zombie") =>
                /\ ret'.op = "waitpid"
                /\ ret'.val = -2
                /\ ret'.written = Uninit
                /\ WaitFrame]_vars

\* C7 witness: -2 for a live child while another child is already a zombie
C7_Witness ==
    /\ ret.op = "waitpid"
    /\ ret.val = -2
    /\ ret.arg \in Range(children[processor_current])
    /\ proc_status[ret.arg] = "Ready"
    /\ \E q \in Range(children[processor_current]) : proc_status[q] = "Zombie"

\* C8: when the caller has a zombie child matching pid, sys_waitpid removes
\* exactly one such entry from the caller's children (the others keep their
\* order), returns that child's pid and stores through exit_code_ptr the exit
\* code that child passed to sys_exit.
C8_ReapsOneZombie ==
    [][/\ WaitStep =>
            LET me == processor_current
                pid == ret'.arg
                kids == children[me]
                Z == { k \in 1 .. Len(kids) :
                        /\ proc_status[kids[k]] = "Zombie"
                        /\ (pid = -1 \/ pid = kids[k]) }
            IN  Z # {} =>
                    /\ ret'.op = "waitpid"
                    /\ \E k \in Z :
                        /\ ret'.val = kids[k]
                        /\ ret'.written = exit_code[kids[k]]
                        /\ children'[me] =
                            SubSeq(kids, 1, k - 1) \o SubSeq(kids, k + 1, Len(kids))
       /\ \A p \in Pids :
            /\ (ret'.op = "exit" /\ p = processor_current /\ proc_status'[p] = "Zombie")
                    => exit_code'[p] = ret'.arg
            /\ (proc_status[p] = "Zombie" /\ proc_status'[p] = "Zombie")
                    => exit_code'[p] = exit_code[p]]_vars

\* C8 witness: a child that exited with 7 has been reaped, another child stays
C8_Witness ==
    /\ ret.op = "waitpid"
    /\ ret.val >= 0
    /\ ret.written = 7
    /\ children[processor_current] # << >>
    /\ ret.val \notin Range(children[processor_current])

\* C9 as stated: once a parent has reaped pid p, no later sys_waitpid of that
\* parent returns p, whatever fork/spawn/exit/waitpid calls come in between
\* (checked on the child created last, when its pid is one its parent reaped).
C9_Original_PidNeverReturnedAgain ==
    [][(ret'.op = "waitpid" /\ ret'.val >= 0) =>
        ~(recycled.parent = processor_current /\ recycled.pid = ret'.val)]_vars

\* C9 amended: once a parent has reaped pid p, no sys_waitpid of that parent
\* returns p as long as the pid allocator has not handed p to a new task: the
\* reaped entry is gone from its children and the task is deallocated; a zombie
\* is reaped once.
C9_NoDoubleReap ==
    /\ [](\A parent \in Pids : \A p \in reaped_gone[parent] :
            /\ p \notin Range(children[parent])
            /\ proc_status[p] = "None")
    /\ [][(ret'.op = "waitpid" /\ ret'.val >= 0) =>
            /\ ret'.val \notin reaped_gone[processor_current]
            /\ ret'.val \notin Range(children'[processor_current])]_vars

\* C9 witness: the parent reaped a pid, and later reaped another child while
\* the first pid was still unused
C9_Witness ==
    /\ ret.op = "waitpid"
    /\ ret.val >= 0
    /\ Cardinality(reaped_gone[processor_current]) >= 2

\* the owners of task p: entries of children lists, entries of the ready queue,
\* the processor
Holders(p) ==
    Cardinality({ qk \in Pids \X (1 .. MaxTasks) :
                    qk[2] <= Len(children[qk[1]]) /\ children[qk[1]][qk[2]] = p })
    + Cardinality({ k \in 1 .. Len(ready_queue) : ready_queue[k] = p })
    + (IF processor_current = p THEN 1 ELSE 0)

\* C10: the assertion Arc::strong_count(&child) == 1 of sys_waitpid never
\* fails: a Zombie is owned by exactly one children-list entry, it is not in the
\* ready queue, it is not the current task, and no handle made by fork or spawn
\* outlives the call (every reference count equals the number of owners).
C10_LastReference ==
    /\ ~kernel_panic
    /\ \A p \in Pids :
        /\ strong_count[p] = Holders(p)
        /\ proc_status[p] = "Zombie" =>
            /\ strong_count[p] = 1
            /\ p \notin Range(ready_queue)
            /\ p # processor_current
        /\ proc_status[p] = "None" <=> strong_count[p] = 0

\* C10 witness: a zombie has been removed from the children list and reaped
\* while another zombie waits in that list
C10_Witness ==
    /\ ret.op = "waitpid"
    /\ ret.val >= 0
    /\ ~kernel_panic
    /\ \E q \in Range(children[processor_current]) : proc_status[q] = "Zombie"

\* ------------------------------------------------------------------ claims on SpecExec

\* C11: task A forks B.  Every sys_waitpid(B.pid) by A made while B has not
\* called sys_exit returns -2 and leaves B in A's children; once B has called
\* sys_exec and then sys_exit(c), the sys_waitpid(B.pid) by A returns B.pid
\* and stores c through exit_code_ptr, whatever the order in which the
\* scheduler ran A and B.
C11_ForkExecExitWait ==
    [][ \A p \in Pids :
          ( /\ WaitStep
            /\ InSyscall
            /\ ret'.arg = p
            /\ p \in Range(children[processor_current]) )
          => /\ exited[p] = NotExited
                  => /\ ret' = Ret("waitpid", p, -2, Uninit)
                     /\ children' = children
                     /\ proc_status' = proc_status
             /\ (p \in execed /\ exited[p] # NotExited)
                  => /\ ret' = Ret("waitpid", p, p, exited[p])
                     /\ p \notin Range(children'[processor_current])
      ]_vars

\* B called sys_exec, then sys_exit(7), and A's sys_waitpid(B.pid) returned
\* B.pid with code 7
C11_Witness ==
    /\ ret.op = "waitpid"
    /\ ret.arg = ret.val
    /\ ret.val \in Pids
    /\ reaped_execed
    /\ ret.written = 7
    /\ proc_status[ret.val] = "None"

\* ------------------------------------------------------------------ claims on SpecMem

\* the address space, the pool and the frames' contents stay as they are
MemFrame ==
    UNCHANGED <<root_ppn, table_frames, leaf, data_frames, areas, program_brk,
                frame_pool, contents, mem_panic>>

\* the pages of the range the last step named
RetPages(r) == PageRange(r.start, r.start + r.len)

\* C12: a sys_mmap(start, len, port) whose start is not page-aligned, or whose
\* port has a bit outside the low three (port >= 8) or none of the low three
\* (port = 0 modulo 8), returns -1 and changes nothing in the address space.
C12_MmapInvalidArgument ==
    [][ ( /\ mem_ret'.op = "mmap"
          /\ \/ mem_ret'.start % PAGE_SIZE # 0
             \/ mem_ret'.port \notin 1 .. 7 )
        => (mem_ret'.val = -1 /\ MemFrame)
      ]_vars

\* a sys_mmap of an aligned, unmapped, non-empty range was refused for its port
C12_Witness ==
    /\ mem_ret.op = "mmap"
    /\ mem_ret.val = -1
    /\ mem_ret.port = 9
    /\ aligned(mem_ret.start)
    /\ mem_ret.len > 0
    /\ \A v \in RetPages(mem_ret) : leaf[mem_current][v] = NoFrame

\* C13: a sys_mmap on a range of which at least one page is mapped returns -1
\* and leaves every mapping and the set of regions unchanged; in particular a
\* sys_mmap right after a successful sys_mmap on a range that overlaps it fails.
C13_MmapConflict ==
    [][ /\ ( /\ mem_ret'.op = "mmap"
             /\ \E v \in RetPages(mem_ret') : leaf[mem_current][v] # NoFrame )
           => (mem_ret'.val = -1 /\ MemFrame)
        /\ ( /\ mem_ret.op = "mmap"
             /\ mem_ret.val = 0
             /\ mem_ret'.op = "mmap"
             /\ RetPages(mem_ret) \cap RetPages(mem_ret') # {} )
           => mem_ret'.val = -1
      ]_vars

\* a sys_mmap with valid arguments was refused for a range that is partly
\* mapped and partly unmapped
C13_Witness ==
    /\ mem_ret.op = "mmap"
    /\ mem_ret.val = -1
    /\ aligned(mem_ret.start)
    /\ mem_ret.port \in 1 .. 7
    /\ \E v \in RetPages(mem_ret) : leaf[mem_current][v] # NoFrame
    /\ \E v \in RetPages(mem_ret) : leaf[mem_current][v] = NoFrame

\* C14 as stated: whenever sys_mmap(start, len, port) has returned 0, the
\* sys_munmap(start, len) that follows returns 0 and leaves no valid leaf
\* entry in the range.
C14_Original_MmapThenMunmap ==
    [][ ( /\ mem_ret.op = "mmap"
          /\ mem_ret.val = 0
          /\ mem_ret'.op = "munmap"
          /\ mem_ret'.start = mem_ret.start
          /\ mem_ret'.len = mem_ret.len )
        => /\ mem_ret'.val = 0
           /\ \A v \in RetPages(mem_ret) : leaf'[mem_current][v] = NoFrame
      ]_vars

\* C14: whenever sys_mmap(start, len, port) has returned 0 and start + len is
\* page-aligned, the sys_munmap(start, len) that follows returns 0, leaves no
\* valid leaf entry in the range and gives the frames of the range back; when
\* start + len is not page-aligned that sys_munmap returns -1 and the pages
\* stay mapped.
C14_MmapThenMunmapAligned ==
    [][ ( /\ mem_ret.op = "mmap"
          /\ mem_ret.val = 0
          /\ mem_ret'.op = "munmap"
          /\ mem_ret'.start = mem_ret.start
          /\ mem_ret'.len = mem_ret.len )
        => IF (mem_ret.start + mem_ret.len) % PAGE_SIZE = 0
           THEN /\ mem_ret'.val = 0
                /\ \A v \in RetPages(mem_ret) : leaf'[mem_current][v] = NoFrame
                /\ \A v \in RetPages(mem_ret) : leaf[mem_current][v] \in frame_pool'
           ELSE /\ mem_ret'.val = -1
                /\ MemFrame
      ]_vars

\* a non-empty range was mapped by sys_mmap and unmapped by the sys_munmap
\* right after it
C14_Witness ==
    /\ mem_prev.op = "unmapped"
    /\ mem_ret.op = "munmap"
    /\ mem_ret.val = 0
    /\ mem_ret.len > 0
    /\ \A v \in RetPages(mem_ret) : leaf[mem_current][v] = NoFrame

\* C15: a sys_munmap(start, len) whose start or start + len is not
\* page-aligned, or whose range has a page that is not mapped, returns -1; no
\* page is unmapped and no frame is released.
C15_MunmapRejected ==
    [][ ( /\ mem_ret'.op = "munmap"
          /\ \/ mem_ret'.start % PAGE_SIZE # 0
             \/ (mem_ret'.start + mem_ret'.len) % PAGE_SIZE # 0
             \/ \E v \in RetPages(mem_ret') : leaf[mem_current][v] = NoFrame )
        => (mem_ret'.val = -1 /\ MemFrame)
      ]_vars

\* a sys_munmap with aligned arguments was refused for a range that is partly
\* mapped and partly unmapped
C15_Witness ==
    /\ mem_ret.op = "munmap"
    /\ mem_ret.val = -1
    /\ aligned(mem_ret.start)
    /\ aligned(mem_ret.start + mem_ret.len)
    /\ \E v \in RetPages(mem_ret) : leaf[mem_current][v] # NoFrame
    /\ \E v \in RetPages(mem_ret) : leaf[mem_current][v] = NoFrame

\* C16 as stated: after sbrk(+d) and the sbrk(-d) that follows it, the break,
\* the mapped pages, the regions and the number of free frames are what they
\* were before the growth.
C16_Original_SbrkRoundTrip ==
    mem_prev.op = "shrunk"
    => /\ mem_ret.val # -1
       /\ program_brk[mem_current] = mem_prev.brk
       /\ MappedPages(mem_current) = mem_prev.pages
       /\ Regions(mem_current) = mem_prev.regions
       /\ Cardinality(frame_pool) = mem_prev.free

\* C16: after sbrk(+d) and the sbrk(-d) that follows it, the break, the mapped
\* pages and the regions are what they were before the growth, and every frame
\* that backed a page of the growth is free again; the pool is smaller than
\* before only by the interior frames the page table allocated for the growth
\* and keeps.
C16_SbrkRoundTripKeepsInteriorFrames ==
    mem_prev.op = "shrunk"
    => /\ mem_ret.val # -1
       /\ program_brk[mem_current] = mem_prev.brk
       /\ MappedPages(mem_current) = mem_prev.pages
       /\ Regions(mem_current) = mem_prev.regions
       /\ Cardinality(frame_pool) + Cardinality(InteriorFrames(mem_current))
              = mem_prev.free + mem_prev.tables

\* a growth by a page and the shrink by a page that followed it
C16_Witness ==
    /\ mem_prev.op = "shrunk"
    /\ mem_prev.len = PAGE_SIZE
    /\ mem_ret.op = "sbrk"
    /\ mem_ret.len = -PAGE_SIZE
    /\ program_brk[mem_current] = mem_prev.brk

\* ------------------------------------------------------------------ claims on SpecFork

\* C17: a sys_sbrk(size) that is accepted returns the break as it was before
\* the call and moves the break by size; one that would put the break below the
\* heap's base returns -1; every sys_sbrk that returns -1 leaves the break and
\* every mapping as they were; and a sys_sbrk changes only the heap of the
\* current task: the regions it mapped, its pages outside the heap and the
\* address space of the other task stay as they are.
C17_SbrkContract ==
    [][ mem_ret'.op = "sbrk"
        => LET a == mem_current
               size == mem_ret'.len
               old == program_brk[a]
           IN  /\ old + size < heap_bottom => mem_ret'.val = -1
               /\ mem_ret'.val = -1 => MemFrame
               /\ mem_ret'.val # -1
                    => /\ mem_ret'.val = old
                       /\ program_brk'[a] = old + size
               /\ areas'[a] = areas[a]
               /\ \A v \in Vpns \ (HeapPages(old) \cup HeapPages(old + size)) :
                      leaf'[a][v] = leaf[a][v]
               /\ \A b \in Spaces \ {a} :
                      /\ program_brk'[b] = program_brk[b]
                      /\ leaf'[b] = leaf[b]
                      /\ data_frames'[b] = data_frames[b]
                      /\ areas'[b] = areas[b]
                      /\ root_ppn'[b] = root_ppn[b]
                      /\ table_frames'[b] = table_frames[b]
                      /\ \A v \in Vpns : leaf[b][v] # NoFrame
                            => contents'[leaf[b][v]] = contents[leaf[b][v]]
      ]_vars

\* a sys_sbrk of the current task was accepted while the other task, forked
\* from it, has a heap and a break of its own
C17_Witness ==
    /\ mem_ret.op = "sbrk"
    /\ mem_ret.val # -1
    /\ program_brk[mem_current] = mem_ret.val + mem_ret.len
    /\ \E b \in Spaces \ {mem_current} :
          /\ root_ppn[b] # NoFrame
          /\ program_brk[b] > heap_bottom
          /\ program_brk[b] # program_brk[mem_current]

\* what a task reads at a page: the contents of the frame its leaf entry points
\* to, NoFrame if the page is not mapped
Reads(a, v) == IF leaf[a][v] = NoFrame THEN NoFrame ELSE contents[leaf[a][v]]

\* C20: after fork the two address spaces share no frame, in every later
\* state, and no step of the current task (a store, sys_mmap, sys_munmap,
\* sys_sbrk, or the fork itself) changes what another task that exists reads
\* at any page.
C20_NoAliasing ==
    [][ /\ \A a, b \in Spaces : a # b
            => /\ \A v, w \in Vpns :
                    leaf'[a][v] # NoFrame => leaf'[a][v] # leaf'[b][w]
               /\ \A g, h \in Groups :
                    table_frames'[a][g] # NoFrame
                        => table_frames'[a][g] # table_frames'[b][h]
               /\ root_ppn'[a] # NoFrame => root_ppn'[a] # root_ppn'[b]
        /\ \A b \in Spaces \ {mem_current} : root_ppn[b] # NoFrame
            => \A v \in Vpns :
                  /\ leaf'[b][v] = leaf[b][v]
                  /\ leaf[b][v] # NoFrame
                        => contents'[leaf[b][v]] = contents[leaf[b][v]]
      ]_vars

\* after a fork the current task stored into a page that both tasks map, and
\* the two tasks read different values there
C20_Witness ==
    /\ mem_ret.op = "store"
    /\ \E b \in Spaces \ {mem_current} :
          /\ root_ppn[b] # NoFrame
          /\ \E v \in Vpns :
                /\ mem_ret.start = v * PAGE_SIZE
                /\ leaf[b][v] # NoFrame
                /\ Reads(b, v) # Reads(mem_current, v)

\* ------------------------------------------------------------------ claims on SpecPt

\* C18: no frame that a valid leaf entry points to is in the allocator's free
\* pool, and no frame is pointed to by two leaf entries.
C18_LeafFramesOwnedOnce ==
    /\ \A a \in Spaces : \A v \in Vpns :
          leaf[a][v] # NoFrame => leaf[a][v] \notin frame_pool
    /\ \A a, b \in Spaces : \A v, w \in Vpns :
          (leaf[a][v] # NoFrame /\ leaf[a][v] = leaf[b][w]) => (a = b /\ v = w)

\* C19: no operation releases a frame twice without an alloc in between (the
\* kernel never aborts on a double free), and after
\* TaskManager::current_task_unmap(start, n) the root frame of the page table
\* and the frames of the regions' pages outside the range are still allocated.
C19_UnmapReleasesOnlyPageFrames ==
    /\ ~mem_panic
    /\ mem_ret.op = "task_unmap"
         => /\ root_ppn[mem_current] \notin frame_pool
            /\ \A v \in Vpns \ RetPages(mem_ret) :
                  data_frames[mem_current][v] # NoFrame
                      => data_frames[mem_current][v] \notin frame_pool

\* ------------------------------------------------------------------ claims on SpecProc (task creation)

\* C21: a sys_fork creates exactly one task.  Its pid was held by no task,
\* the caller gets it as the return value, the new task is Ready with no
\* children, it is appended to the caller's children and to the ready queue,
\* where it was not before, and x[10] of its trap context is 0.  The status of
\* the caller and of every other task, the caller's earlier children (and
\* their order) and the current task stay as they were.
C21_ForkCreatesOneTask ==
    [][ ret'.op = "fork"
        => LET me == processor_current
               q == ret'.val
           IN  /\ q \in Pids
               /\ proc_status[q] = "None"
               /\ proc_status'[q] = "Ready"
               /\ \A p \in Pids \ {q} : proc_status'[p] = proc_status[p]
               /\ children'[me] = Append(children[me], q)
               /\ children'[q] = << >>
               /\ \A p \in Pids \ {me, q} : children'[p] = children[p]
               /\ q \notin Range(ready_queue)
               /\ ready_queue' = Append(ready_queue, q)
               /\ trap_x10'[q] = 0
               /\ processor_current' = me
      ]_vars

\* a task that had a child already has forked again: the new child is the last
\* of its children and the last of the ready queue
C21_Witness ==
    /\ ret.op = "fork"
    /\ Len(children[processor_current]) >= 2
    /\ children[processor_current][Len(children[processor_current])] = ret.val
    /\ ready_queue # << >>
    /\ ready_queue[Len(ready_queue)] = ret.val
    /\ proc_status[ret.val] = "Ready"
    /\ trap_x10[ret.val] = 0

\* C22: a sys_spawn(path) of a program the loader knows creates one task: its
\* pid was held by no task and is returned, the task is Ready, it is appended
\* to the caller's children and to the ready queue, where it was not before,
\* and no other task changes; a sys_waitpid of the caller on a pid that is
\* among its children does not return -1.  A sys_spawn of an unknown program
\* returns -1 and creates nothing: statuses (and with them the pids in use),
\* children, reference counts and the ready queue stay as they were.
C22_SpawnKnownOrNotFound ==
    [][ /\ (ret'.op = "spawn" /\ ret'.arg = 1)
            => LET me == processor_current
                   q == ret'.val
               IN  /\ q \in Pids
                   /\ proc_status[q] = "None"
                   /\ proc_status'[q] = "Ready"
                   /\ \A p \in Pids \ {q} : proc_status'[p] = proc_status[p]
                   /\ children'[me] = Append(children[me], q)
                   /\ \A p \in Pids \ {me, q} : children'[p] = children[p]
                   /\ q \notin Range(ready_queue)
                   /\ ready_queue' = Append(ready_queue, q)
                   /\ processor_current' = me
        /\ (ret'.op = "spawn" /\ ret'.arg = 0)
            => /\ ret'.val = -1
               /\ UNCHANGED <<proc_status, children, exit_code, strong_count,
                              ready_queue, processor_current, kernel_panic,
                              trap_x10>>
        /\ (ret'.op = "waitpid" /\ ret'.arg \in Range(children[processor_current]))
            => ret'.val # -1
      ]_vars

\* a sys_spawn of an unknown program has returned -1 to a task whose child,
\* spawned or forked before, waits in the ready queue
C22_Witness ==
    /\ ret.op = "spawn"
    /\ ret.arg = 0
    /\ ret.val = -1
    /\ \E q \in Range(children[processor_current]) :
          q \in Range(ready_queue) /\ proc_status[q] = "Ready"

\* ------------------------------------------------------------------ claims on SpecExec (exec)

\* C23: a sys_exec of a program the loader knows returns 0, a sys_exec of an
\* unknown program returns -1; both leave the status of every task, every
\* children list (and so the caller's parent link), the reference counts, the
\* ready queue and the current task as they were, and the second one leaves
\* the caller's trap context alone as well.
C23_ExecKeepsIdentity ==
    [][ ret'.op = "exec"
        => /\ UNCHANGED <<proc_status, children, exit_code, strong_count,
                          ready_queue, processor_current, kernel_panic>>
           /\ ret'.arg = 1 => (ret'.val = 0 /\ processor_current \in execed')
           /\ ret'.arg = 0 => (ret'.val = -1 /\ UNCHANGED <<execed, trap_x10>>)
      ]_vars

\* a task with a child in its children list has called sys_exec with success
\* and is still the running task
C23_Witness ==
    /\ ret.op = "exec"
    /\ ret.val = 0
    /\ processor_current \in execed
    /\ proc_status[processor_current] = "Running"
    /\ children[processor_current] # << >>

\* ------------------------------------------------------------------ claims on SpecFull

\* C24: a sys_mmap with valid arguments on an unmapped range that has more
\* pages than the free pool has frames returns -1, the kernel does not abort,
\* and the address space and the pool stay as they were.
C24_ExhaustionIsRecoverable ==
    [][ ( /\ mem_ret'.op = "mmap"
          /\ aligned(mem_ret'.start)
          /\ mem_ret'.port \in 1 .. 7
          /\ \A v \in RetPages(mem_ret') : leaf[mem_current][v] = NoFrame
          /\ Cardinality(RetPages(mem_ret')) > Cardinality(frame_pool) )
        => /\ mem_ret'.val = -1
           /\ ~mem_panic'
           /\ MemFrame
      ]_vars

\* ------------------------------------------------------------------ claims on SpecProc (reaping order)

\* the zombies among the children kids, as indices
ZombieIndices(kids) == { k \in 1 .. Len(kids) : proc_status[kids[k]] = "Zombie" }

\* C25: a sys_waitpid(-1, ptr) of a task with zombie children reaps the zombie
\* that comes first in its children order: no child before it is a zombie, it
\* alone leaves the list and the other zombies stay zombies in the list, in
\* their order (so successive calls reap the zombies in children order).  A
\* sys_waitpid(p, ptr) with p >= 0 that reaps a task reaps p and leaves every
\* other child, zombie or not, in the list.
C25_ReapsInChildrenOrder ==
    [][ ret'.op = "waitpid"
        => LET me == processor_current
               kids == children[me]
               Z == ZombieIndices(kids)
           IN  /\ (ret'.arg = -1 /\ Z # {})
                    => /\ ret'.val = kids[FirstIndex(Z)]
                       /\ children'[me] = RemoveAt(kids, FirstIndex(Z))
                       /\ \A k \in Z \ {FirstIndex(Z)} :
                             proc_status'[kids[k]] = "Zombie"
               /\ (ret'.arg >= 0 /\ ret'.val >= 0)
                    => /\ ret'.val = ret'.arg
                       /\ \E k \in Z :
                             /\ kids[k] = ret'.arg
                             /\ children'[me] = RemoveAt(kids, k)
                       /\ \A k \in 1 .. Len(kids) : kids[k] # ret'.arg
                             => proc_status'[kids[k]] = proc_status[kids[k]]
      ]_vars

\* a sys_waitpid(-1, ptr) has reaped one of two zombie children: the other one
\* is still a zombie in the children list
C25_Witness ==
    /\ ret.op = "waitpid"
    /\ ret.arg = -1
    /\ ret.val >= 0
    /\ proc_status[ret.val] = "None"
    /\ ZombieIndices(children[processor_current]) # {}

\* the pages TaskManager::current_task_mmap(start, num_pages, ..) is asked to
\* map: page_start / PAGE_SIZE for each of its iterations
TaskMmapPages(r) ==
    { floor(r.start + i * PAGE_SIZE) : i \in 0 .. ((r.len \div PAGE_SIZE) - 1) }

\* C26: TaskManager::current_task_mmap is all-or-nothing and checks the pages
\* it maps: when it returns -1 the set of mapped pages and the free pool are
\* what they were before the call and a page of the range was mapped (or the
\* pool empty); when it returns 0 every page of the range was unmapped before
\* the call; it never maps over a valid leaf entry (the kernel does not abort).
C26_TaskMmapAllOrNothing ==
    [][ mem_ret'.op = "task_mmap"
        => LET a == mem_current
               pages == TaskMmapPages(mem_ret')
           IN  /\ ~mem_panic'
               /\ mem_ret'.val = -1
                    => /\ MappedPages(a)' = MappedPages(a)
                       /\ frame_pool' = frame_pool
                       /\ \/ \E v \in pages : leaf[a][v] # NoFrame
                          \/ frame_pool = {}
               /\ mem_ret'.val = 0
                    => \A v \in pages : leaf[a][v] = NoFrame
      ]_vars

\* ------------------------------------------------------------------ claims on Spec (fatal branch, fairness, borrows)

\* C27: run_next_task takes its fatal branch only when every task is Exited.
\* After mark_current_suspended find_next_task always finds a task, and when
\* no other task is Ready it finds the suspending task itself, which runs on;
\* after mark_current_exited the fatal branch is taken only if the exiting
\* task was the last one that had not exited.
C27_PanicOnlyWhenAllExited ==
    [][ /\ (pc # "panicked" /\ pc' = "panicked")
            => /\ pc = "exited"
               /\ \A i \in TaskIds : task_status[i] = "Exited"
        /\ pc = "suspended"
            => /\ pc' # "panicked"
               /\ (ReadySet = {current_task} /\ pc' = "user")
                    => /\ current_task' = current_task
                       /\ task_status'[current_task] = "Running"
        /\ (pc = "exited" /\ \E i \in TaskIds : task_status[i] # "Exited")
            => pc' # "panicked"
      ]_vars

\* a task that suspended while every other task had exited was selected again
\* and runs
C27_Witness ==
    /\ pc = "user"
    /\ switched.from = current_task
    /\ switched.to = current_task
    /\ task_status[current_task] = "Running"
    /\ \A i \in TaskIds \ {current_task} : task_status[i] = "Exited"

\* ------------------------------------------------------------------ claims on SpecFair

\* C28: no starvation.  A task that is Ready has waited through at most
\* num_app - 1 suspends and exits of running tasks: the scheduling step after
\* the (num_app - 1)-th makes it Running.  And when every running task
\* eventually suspends or exits, every Ready task eventually runs.
C28_NoStarvation ==
    /\ [](\A i \in TaskIds :
            /\ task_status[i] = "Ready" => waited[i] <= NumApp - 1
            /\ (task_status[i] = "Ready" /\ pc = "user") => waited[i] <= NumApp - 2)
    /\ \A i \in TaskIds : (task_status[i] = "Ready") ~> (task_status[i] = "Running")

\* a task has been Ready through num_app - 1 suspends or exits of the others
\* and is the one the next scheduling step selects
C28_Witness ==
    /\ pc \in {"suspended", "exited"}
    /\ \E i \in TaskIds :
          /\ task_status[i] = "Ready"
          /\ waited[i] = NumApp - 1
          /\ find_next_task = i

\* ------------------------------------------------------------------ claims on SpecCell

\* C29: exclusive_access is never called while the borrow of the inner cell
\* is out, and no borrow is out at a __switch: after every function of the
\* TaskManager (run_first_task, the suspend and exit steps, run_next_task, the
\* accessors) the cell is free, so the task that resumes finds it free.
C29_BorrowDiscipline ==
    /\ borrow_fault = "none"
    /\ ~borrowed

\* run_next_task has switched from one task to another one, which then called
\* an accessor of the current task
C29_Witness ==
    /\ last_call \in Accessors
    /\ pc = "user"
    /\ switched.from # NoTask
    /\ switched.from # switched.to
    /\ ~borrowed
    /\ borrow_fault = "none"

\* ------------------------------------------------------------------ C30 (SpecMem)

\* the bit of port at position b is set
PortBit(port, b) == (port \div (2 ^ b)) % 2 = 1

\* C30: every region that a sys_mmap(start, len, port) returning 0 installs is
\* the region [floor(start), ceil(start + len)) and holds U, holds R exactly
\* if bit 0 of port is set, W exactly if bit 1 is set and X exactly if bit 2
\* is set, and holds nothing else.
C30_MmapPermissions ==
    [][ ( /\ mem_ret'.op = "mmap"
          /\ mem_ret'.val = 0 )
        => LET port == mem_ret'.port
               Granted(r) ==
                   /\ r.perm \subseteq {"U", "R", "W", "X"}
                   /\ "U" \in r.perm
                   /\ "R" \in r.perm <=> PortBit(port, 0)
                   /\ "W" \in r.perm <=> PortBit(port, 1)
                   /\ "X" \in r.perm <=> PortBit(port, 2)
           IN  \A r \in areas'[mem_current] \ areas[mem_current] :
                   /\ r.lo = floor(mem_ret'.start)
                   /\ r.hi = ceil(mem_ret'.start + mem_ret'.len)
                   /\ Granted(r)
      ]_vars

\* a sys_mmap with port 6 has installed a region of at least one page with
\* U, W and X and without R, next to a region with U and R only
C30_Witness ==
    /\ mem_ret.op = "mmap"
    /\ mem_ret.val = 0
    /\ mem_ret.port = 6
    /\ mem_ret.len > 0
    /\ \E r \in areas[mem_current] :
          /\ r.lo = floor(mem_ret.start)
          /\ r.hi = ceil(mem_ret.start + mem_ret.len)
          /\ r.perm = {"U", "W", "X"}
    /\ \E r \in areas[mem_current] : r.perm = {"U", "R"}

\* ------------------------------------------------------------------ claims on SpecFs

\* C31: a sys_open that returns -1 leaves fd_table and st_table as they were
\* before the call, and a sys_open that returns fd >= 0 leaves the opened
\* file in fd_table[fd] and a Stat in st_table[fd].
C31_OpenAllOrNothing ==
    [][ fs_ret'.op = "open"
        => /\ fs_ret'.val = -1
                => (fd_table' = fd_table /\ st_table' = st_table)
           /\ fs_ret'.val >= 0
                => /\ fs_ret'.val < Len(fd_table')
                   /\ fd_table'[fs_ret'.val + 1] = open_file(fs_ret'.path)
                   /\ st_table'[fs_ret'.val].present
      ]_vars

====
